---- MODULE Spec2Model ----
(***************************************************************************)
(* A model of the TuneFree front-end: the Piped instance-failover client   *)
(* (src/services/piped.ts), the aggregator / resolver layer                *)
(* (src/unnamed/part_000, the services/api module) and the playback engine *)
(* (src/App.tsx, PlayerProvider).                                          *)
(*                                                                         *)
(* Strings are kept as what the code does with them: an id or a name is a  *)
(* sequence of characters/tokens, so that startsWith, toLowerCase and the  *)
(* name|artist key are computed, not assumed.                              *)
(***************************************************************************)
EXTENDS Integers, Sequences, FiniteSets, TLC

VARIABLES
    \* ---- Piped client (src/services/piped.ts) ----
    PIPED_INSTANCES,       \* the pool: a sequence of instance base URLs
    currentInstanceIndex,  \* the rotation cursor
    BROKEN_INSTANCES,      \* instance -> time it was marked broken, or Undefined
    clock,                 \* Date.now()
    nticks,                \* how often the clock advanced (bounded)
    nfetches,              \* how many pipedFetch calls were started (bounded)
    remoteLoaded,          \* updateInstances has replaced the pool
    pf,                    \* the pipedFetch invocations, one record per slot
    \* ---- Aggregator (src/unnamed/part_000) ----
    agg,                   \* the searchAggregate invocation
    \* ---- Resolvers (src/unnamed/part_000) ----
    rs,                    \* the resolver invocation (parseSongs, getSongUrl, ...)
    nresolves,             \* how many resolver calls were made (bounded)
    parseCache,            \* _parseCache: the entries, each with its key
    \* ---- Playback engine (src/App.tsx) ----
    mounted,               \* PlayerProvider has mounted
    currentSong,           \* state: the current song, or Null
    currentSongRef,        \* currentSongRef.current
    isPlaying,             \* state
    renderedIsPlaying,     \* isPlaying as the callbacks of the last render see it
    isLoading,             \* state
    queue,                 \* state: the queue
    queueRef,              \* queueRef.current
    playMode,              \* state, and playModeRef.current
    audioQuality,          \* state, and audioQualityRef.current
    retryCountRef,         \* retryCountRef.current
    autoRetries,           \* history: automatic re-invocations since the last reset
    audio,                 \* audioRef.current: src, load status, paused
    plays,                 \* the playSong invocations awaiting their resolution
    urls,                  \* which song objects carry a url, in state and in localStorage
    graph,                 \* isIOSRef, audioCtxRef, the analyser and its routing
    \* ---- Piped client operations (src/services/piped.ts) ----
    pop,                   \* the operation that has gone on after its pipedFetch
    \* ---- YouTube client (src/services/youtube.ts) ----
    windowFetch,           \* window.fetch
    youtubeModule,         \* youtubeModule is loaded
    ytCalls,               \* the client calls, one record per slot
    \* ---- Visualizer (src/components/AudioVisualizer.tsx) ----
    visualizer,            \* props, stateRef.current.displayValues, the frame requested
    \* ---- CORS proxy (src/functions/api/cors-proxy.ts) ----
    proxy,                 \* the request onRequest is handling, with its upstream hops
    \* ---- getPlaylistDetail, and the format choice of getAudioInfo ----
    pd,                    \* the getPlaylistDetail call: backends asked, result
    ai                     \* the getAudioInfo call: accessors called, result

pipedVars == <<PIPED_INSTANCES, currentInstanceIndex, BROKEN_INSTANCES, clock,
               nticks, nfetches, remoteLoaded, pf>>

aggVars == <<agg>>

resVars == <<rs, nresolves, parseCache>>

playerVars == <<mounted, currentSong, currentSongRef, isPlaying, renderedIsPlaying,
                isLoading, queue, queueRef, playMode, audioQuality, retryCountRef,
                autoRetries, audio, plays>>

\* what the engine holds besides: the url property of its song objects with
\* the localStorage copies, and the analysis graph
engineVars == <<urls, graph>>

opVars == <<pop>>

youtubeVars == <<windowFetch, youtubeModule, ytCalls>>

visualizerVars == <<visualizer>>

proxyVars == <<proxy>>

lookupVars == <<pd, ai>>

vars == <<pipedVars, aggVars, resVars, playerVars, engineVars, opVars, youtubeVars,
          visualizerVars, proxyVars, lookupVars>>

notPiped == <<aggVars, resVars, playerVars, engineVars, opVars, youtubeVars,
              visualizerVars, proxyVars, lookupVars>>
notAgg == <<pipedVars, resVars, playerVars, engineVars, opVars, youtubeVars,
            visualizerVars, proxyVars, lookupVars>>
notRes == <<pipedVars, aggVars, playerVars, engineVars, opVars, youtubeVars,
            visualizerVars, proxyVars, lookupVars>>
notPlayer == <<pipedVars, aggVars, resVars, opVars, youtubeVars, visualizerVars,
               proxyVars, lookupVars>>
notYoutube == <<pipedVars, aggVars, resVars, playerVars, engineVars, opVars,
                visualizerVars, proxyVars, lookupVars>>
notVisualizer == <<pipedVars, aggVars, resVars, playerVars, engineVars, opVars,
                   youtubeVars, proxyVars, lookupVars>>
notProxy == <<pipedVars, aggVars, resVars, playerVars, engineVars, opVars,
              youtubeVars, visualizerVars, lookupVars>>
notLookup == <<pipedVars, aggVars, resVars, playerVars, engineVars, opVars,
               youtubeVars, visualizerVars, proxyVars>>

\* null, for values that are records otherwise
Null == [null |-> TRUE]
Undefined == -1

(***************************************************************************)
(* Generic helpers                                                         *)
(***************************************************************************)
Range(s) == {s[k] : k \in 1..Len(s)}

\* Array.prototype.indexOf, 0-based, -1 when absent
IndexOf(s, x) ==
    IF \E k \in 1..Len(s) : s[k] = x
    THEN (CHOOSE k \in 1..Len(s) : s[k] = x /\ \A j \in 1..(k - 1) : s[j] # x) - 1
    ELSE -1

\* a[k] for a 0-based index k
At(s, k) == s[k + 1]

(***************************************************************************)
(* Piped client                                                            *)
(***************************************************************************)
MaxTicks == 2
MaxFetches == 2

BROKEN_TIMEOUT == 1000 * 60 * 5

\* the three built-in mirrors and the mirrors a remote list may name
BuiltinInstances == <<"moomoo", "api.moomoo", "hypercrab">>
RemoteLists == {<<"hypercrab", "remote">>}
AllInstances == Range(BuiltinInstances) \cup UNION {Range(l) : l \in RemoteLists}

FetchSlots == {1, 2}

\* how far Date.now() may move between two steps of the program
TickSteps == {1, BROKEN_TIMEOUT}

\* what one request to a mirror can come back with: a response (status and
\* content-type header) or a rejected fetch (network failure, 8 s abort)
NetworkError == [kind |-> "error"]
JsonTypes == {"application/json", "application/json; charset=utf-8"}
ContentTypes == JsonTypes \cup {"text/html", ""}
Responses ==
    { [kind |-> "response", status |-> 200, ct |-> "application/json"],
      [kind |-> "response", status |-> 200, ct |-> "text/html"],
      [kind |-> "response", status |-> 302, ct |-> "application/json"],
      [kind |-> "response", status |-> 404, ct |-> "application/json"],
      [kind |-> "response", status |-> 502, ct |-> ""],
      \* what fetch hands back for a redirect under redirect: 'manual'
      [kind |-> "response", status |-> 0, ct |-> ""] }
Outcomes == Responses \cup {NetworkError}

\* ct.includes('application/json')
IncludesJson(ct) == ct \in JsonTypes
\* response.status >= 300 && response.status < 400
IsRedirect(r) == r.status >= 300 /\ r.status < 400
\* response.ok
ResponseOk(r) == r.status >= 200 /\ r.status <= 299

IsHealthyInclusive(t, now) == t = Undefined \/ now - t >= BROKEN_TIMEOUT
IsHealthyAlways(t, now) == TRUE
\* the filter's test: never marked, or marked more than BROKEN_TIMEOUT ago
IsHealthy(t, now) == t = Undefined \/ now - t > BROKEN_TIMEOUT

\* PIPED_INSTANCES.filter(...)
Available(pool, broken, now) ==
    SelectSeq(pool, LAMBDA inst : IsHealthy(broken[inst], now))

\* the start position in the healthy subset
StartIndex(pool, cursor, available) ==
    LET nowStart == cursor % Len(pool)
        orig == At(pool, nowStart)
        idxInAvailable == IndexOf(available, orig)
    IN  IF idxInAvailable >= 0 THEN idxInAvailable ELSE 0

AcceptsNever(r) == FALSE
AcceptsAlways(r) == TRUE
AcceptsAnyJson(r) == r.kind = "response" /\ ~IsRedirect(r) /\ IncludesJson(r.ct)
AcceptsAny2xx(r) == r.kind = "response" /\ ~IsRedirect(r) /\ ResponseOk(r)
\* the response the loop returns: not a redirect, JSON content type, response.ok
Accepts(r) ==
    /\ r.kind = "response"
    /\ ~IsRedirect(r)
    /\ IncludesJson(r.ct)
    /\ ResponseOk(r)

\* history: r is an answer with a 2xx status and a JSON content type
IsOkJson(r) ==
    /\ r.kind = "response"
    /\ r.status \in 200..299
    /\ r.ct \in JsonTypes

CursorAtWinner(origIdx, length) == origIdx % length
CursorPastWinner(origIdx, length) == origIdx + 1
\* the cursor after a success at origIdx: (origIdx + 1) % PIPED_INSTANCES.length
CursorAfterSuccess(origIdx, length) == (origIdx + 1) % length

\* one invocation: the code's locals now, available, startIndex, i, and its
\* result; history: cursorInstance (the instance under the cursor when the call
\* started), tried (the requests it issued, in order) and skippedOk (the loop
\* went past a 2xx JSON answer)
IdleFetch ==
    [pc |-> "idle", now |-> 0, available |-> <<>>, startIndex |-> 0, i |-> 0,
     cursorInstance |-> "", tried |-> <<>>, skippedOk |-> FALSE, result |-> Null]

\* the instance the loop is at: available[(startIndex + i) % len]
CandidateAt(f) == At(f.available, (f.startIndex + f.i) % Len(f.available))

\* getPipedInstance, with the cursor taken modulo the pool as pipedFetch does
CursorInstance == At(PIPED_INSTANCES, currentInstanceIndex % Len(PIPED_INSTANCES))

\* pipedFetch up to its first await: the snapshot of the healthy subset, the
\* start position, the early return when nothing is healthy, the first request
pipedFetchStart(c) ==
    /\ pf[c].pc = "idle"
    \* the slots are interchangeable: a call takes the lowest free one
    /\ \A d \in FetchSlots : d < c => pf[d].pc # "idle"
    /\ nfetches < MaxFetches
    /\ nfetches' = nfetches + 1
    /\ LET now == clock
           available == Available(PIPED_INSTANCES, BROKEN_INSTANCES, now)
           startIndex == StartIndex(PIPED_INSTANCES, currentInstanceIndex, available)
       IN  IF Len(available) = 0
           THEN pf' = [pf EXCEPT ![c] =
                        [IdleFetch EXCEPT !.pc = "done", !.now = now,
                                          !.cursorInstance = CursorInstance]]
           ELSE pf' = [pf EXCEPT ![c] =
                        [IdleFetch EXCEPT !.pc = "fetching", !.now = now,
                                          !.available = available,
                                          !.startIndex = startIndex,
                                          !.cursorInstance = CursorInstance,
                                          !.tried = <<At(available, startIndex)>>]]
    /\ UNCHANGED <<PIPED_INSTANCES, currentInstanceIndex, BROKEN_INSTANCES, clock,
                   nticks, remoteLoaded>>
    /\ UNCHANGED notPiped

\* one request of the loop settles with outcome r; the loop either returns the
\* response, or marks the instance broken and goes on to the next candidate,
\* or, after the last candidate, moves the cursor and returns null
pipedFetchSettle(c, r) ==
    /\ pf[c].pc = "fetching"
    /\ LET f == pf[c]
           instance == CandidateAt(f)
           len == Len(f.available)
           answered == [f EXCEPT !.skippedOk = f.skippedOk \/ (IsOkJson(r) /\ ~Accepts(r))]
       IN  IF Accepts(r)
           THEN /\ LET origIdx == IndexOf(PIPED_INSTANCES, instance)
                   IN  currentInstanceIndex' =
                           IF origIdx >= 0
                           THEN CursorAfterSuccess(origIdx, Len(PIPED_INSTANCES))
                           ELSE currentInstanceIndex
                /\ pf' = [pf EXCEPT ![c] =
                            [answered EXCEPT !.pc = "done",
                                             !.result = [instance |-> instance,
                                                         response |-> r]]]
                /\ UNCHANGED BROKEN_INSTANCES
           ELSE /\ BROKEN_INSTANCES' = [BROKEN_INSTANCES EXCEPT ![instance] = f.now]
                /\ IF f.i + 1 < len
                   THEN /\ pf' = [pf EXCEPT ![c] =
                                [answered EXCEPT
                                    !.i = f.i + 1,
                                    !.tried = Append(f.tried,
                                        At(f.available, (f.startIndex + f.i + 1) % len))]]
                        /\ UNCHANGED currentInstanceIndex
                   ELSE /\ pf' = [pf EXCEPT ![c] =
                                [answered EXCEPT !.pc = "done", !.i = f.i + 1]]
                        /\ currentInstanceIndex' = (f.startIndex + 1) % len
    /\ UNCHANGED <<PIPED_INSTANCES, clock, nticks, nfetches, remoteLoaded>>
    /\ UNCHANGED notPiped

\* the caller has the result of a finished call; its locals are gone
pipedFetchReturn(c) ==
    /\ pf[c].pc = "done"
    /\ pf' = [pf EXCEPT ![c] = IdleFetch]
    /\ UNCHANGED <<PIPED_INSTANCES, currentInstanceIndex, BROKEN_INSTANCES, clock,
                   nticks, nfetches, remoteLoaded>>
    /\ UNCHANGED notPiped

IsUsableInclusive(t, now) == t = Undefined \/ now - t >= BROKEN_TIMEOUT
\* the test of isAvailable: t === undefined || now - t > BROKEN_TIMEOUT
IsUsable(t, now) == t = Undefined \/ now - t > BROKEN_TIMEOUT

\* isAvailable(): PIPED_INSTANCES.some(...), with now = Date.now()
isAvailable(pool, broken, now) ==
    \E k \in 1..Len(pool) : IsUsable(broken[pool[k]], now)

\* updateInstances: the remote list goes in front, the old entries it does not
\* name are kept behind it
updateInstances(instances) ==
    /\ ~remoteLoaded
    /\ Len(instances) > 0
    /\ PIPED_INSTANCES' =
           instances \o SelectSeq(PIPED_INSTANCES, LAMBDA x : x \notin Range(instances))
    /\ remoteLoaded' = TRUE
    /\ UNCHANGED <<currentInstanceIndex, BROKEN_INSTANCES, clock, nticks, nfetches, pf>>
    /\ UNCHANGED notPiped

\* time passes
Tick(d) ==
    /\ nticks < MaxTicks
    /\ nticks' = nticks + 1
    /\ clock' = clock + d
    /\ UNCHANGED <<PIPED_INSTANCES, currentInstanceIndex, BROKEN_INSTANCES, nfetches,
                   remoteLoaded, pf>>
    /\ UNCHANGED notPiped

PipedInit ==
    /\ PIPED_INSTANCES = BuiltinInstances
    /\ currentInstanceIndex = 0
    /\ BROKEN_INSTANCES = [inst \in AllInstances |-> Undefined]
    /\ clock = 0
    /\ nticks = 0
    /\ nfetches = 0
    /\ remoteLoaded = FALSE
    /\ pf = [c \in FetchSlots |-> IdleFetch]

(***************************************************************************)
(* Aggregator: searchAggregate                                             *)
(***************************************************************************)
MaxListLen == 2
\* slice(0, 50)
MaxResults == 50

\* String.prototype.toLowerCase, character by character
LowerChar(ch) ==
    CASE ch = "A" -> "a"
      [] ch = "B" -> "b"
      [] OTHER -> ch
toLowerCase(str) == [k \in 1..Len(str) |-> LowerChar(str[k])]

KeyCaseSensitive(song) == song.name \o <<"|">> \o song.artist
\* `${song.name.toLowerCase()}|${song.artist.toLowerCase()}`
Key(song) == toLowerCase(song.name) \o <<"|">> \o toLowerCase(song.artist)

Song(id, name, artist, source) ==
    [id |-> id, name |-> name, artist |-> artist, source |-> source]

\* what the YouTube client may return: entries that differ in case only, and
\* entries whose name or artist holds the separator itself
SongsY ==
    { Song(<<"y", 1>>, <<"a">>, <<"b">>, "youtube"),
      Song(<<"y", 2>>, <<"A">>, <<"B">>, "youtube"),
      Song(<<"y", 3>>, <<"a", "|", "b">>, <<"a">>, "youtube"),
      Song(<<"y", 4>>, <<"a">>, <<"b", "|", "a">>, "youtube") }
SongsP ==
    { Song(<<"p", 1>>, <<"A">>, <<"b">>, "piped"),
      Song(<<"p", 2>>, <<"b">>, <<"a">>, "piped"),
      Song(<<"p", 3>>, <<"b">>, <<"A">>, "piped") }

Digits == <<"0", "1", "2", "3", "4", "5", "6", "7", "8", "9">>
\* the n-th of a series of tracks with pairwise different names
GenSong(source, n) ==
    Song(<<source, n>>, <<"t", Digits[(n \div 10) + 1], Digits[(n % 10) + 1]>>,
         <<"b">>, source)
GenList(source, from, to) ==
    [k \in 1..(to - from + 1) |-> GenSong(source, from + k - 1)]

SmallLists(S) == UNION {[1..n -> S] : n \in 0..MaxListLen}

\* a search settles with a list or rejects; the Piped client returns at most
\* 30 entries (its slice(0, 30)), the YouTube client any number
Rejected == [status |-> "rejected"]
Fulfilled(v) == [status |-> "fulfilled", value |-> v]
YoutubeOutcomes ==
    {Rejected} \cup {Fulfilled(l) : l \in SmallLists(SongsY)
                         \cup {GenList("youtube", 1, 30), GenList("youtube", 1, 51)}}
PipedOutcomes ==
    {Rejected} \cup {Fulfilled(l) : l \in SmallLists(SongsP)
                         \cup {GenList("piped", 1, 30), GenList("piped", 25, 54)}}

CatchMissing(outcome) == outcome
\* .catch(() => [])
CatchEmpty(outcome) ==
    IF outcome.status = "rejected" THEN Fulfilled(<<>>) ELSE outcome

\* combined.forEach(...) over the Map: keys in insertion order, the first
\* song of each key kept
RECURSIVE UniqueMap(_, _, _)
UniqueMap(combined, k, map) ==
    IF k > Len(combined) THEN map
    ELSE LET song == combined[k]
             key == Key(song)
         IN  IF \E m \in 1..Len(map) : map[m].key = key
             THEN UniqueMap(combined, k + 1, map)
             ELSE UniqueMap(combined, k + 1, Append(map, [key |-> key, song |-> song]))

\* Array.from(uniqueMap.values())
MapValues(map) == [m \in 1..Len(map) |-> map[m].song]

SliceUncapped(s, n) == s
\* Array.prototype.slice(0, n)
Slice(s, n) == SubSeq(s, 1, IF Len(s) < n THEN Len(s) ELSE n)

\* the body of the try block, given the two settled searches; a rejected
\* element makes Promise.all reject, the catch block then returns a second
\* youtube.searchAudio call, which settles with `again`
AggregateResult(yt, piped, again) ==
    IF yt.status = "rejected" \/ piped.status = "rejected"
    THEN again
    ELSE LET combined == yt.value \o piped.value
         IN  Fulfilled(Slice(MapValues(UniqueMap(combined, 1, <<>>)), MaxResults))

Pending == [status |-> "pending"]
IdleAgg ==
    [pc |-> "idle", ytRaw |-> Pending, pipedRaw |-> Pending,
     yt |-> Pending, piped |-> Pending, result |-> Pending]

\* searchAggregate starts both searches
searchAggregateStart ==
    /\ agg.pc = "idle"
    /\ agg' = [IdleAgg EXCEPT !.pc = "searching"]
    /\ UNCHANGED notAgg

\* youtube.searchAudio(keyword, page).catch(() => []) settles
youtubeSearchSettle(outcome) ==
    /\ agg.pc = "searching"
    /\ agg.yt = Pending
    /\ agg' = [agg EXCEPT !.ytRaw = outcome, !.yt = CatchEmpty(outcome)]
    /\ UNCHANGED notAgg

\* piped.searchAudio(keyword).catch(() => []) settles
pipedSearchSettle(outcome) ==
    /\ agg.pc = "searching"
    /\ agg.piped = Pending
    /\ agg' = [agg EXCEPT !.pipedRaw = outcome, !.piped = CatchEmpty(outcome)]
    /\ UNCHANGED notAgg

\* Promise.all has settled: merge, deduplicate, cap
searchAggregateFinish(again) ==
    /\ agg.pc = "searching"
    /\ agg.yt # Pending
    /\ agg.piped # Pending
    /\ agg' = [agg EXCEPT !.pc = "done",
                           !.result = AggregateResult(agg.yt, agg.piped, again)]
    /\ UNCHANGED notAgg

\* the caller has the result
searchAggregateReturn ==
    /\ agg.pc = "done"
    /\ agg' = IdleAgg
    /\ UNCHANGED notAgg

AggInit == agg = IdleAgg

AggNext ==
    \/ searchAggregateStart
    \/ \E outcome \in YoutubeOutcomes : youtubeSearchSettle(outcome)
    \/ \E outcome \in PipedOutcomes : pipedSearchSettle(outcome)
    \/ \E again \in YoutubeOutcomes : searchAggregateFinish(again)
    \/ searchAggregateReturn

(***************************************************************************)
(* Resolvers: parseSongs, parseSongFull, getSongUrl, getSongInfo           *)
(***************************************************************************)
MaxResolves == 2

PARSE_CACHE_TTL == 5 * 60 * 1000

\* ids as the tokens they are made of: the empty string, a placeholder (temp_
\* and a random suffix), a video id, and an id that merely contains temp_
EmptyString == <<>>
Ids == {EmptyString, <<"temp_", "k3x9">>, <<"dQw4">>, <<"x", "temp_">>}
Platforms == {"piped", "youtube", "netease", ""}
Qualities == {"320k", "128k"}
ResolverOps == {"parseSongs", "parseSongFull", "getSongUrl", "getSongInfo"}

EqualsTemp(id) == id = <<"temp_">>
\* String(id).startsWith('temp_')
StartsWithTemp(id) == Len(id) >= 1 /\ id[1] = "temp_"

\* what the clients and the parse backend may answer
\* (an audioUrl of "" stands for the null of an info without audio stream)
ClientAnswers == {Null, [audioUrl |-> "", thumbnail |-> "pic"],
                        [audioUrl |-> "https://stream", thumbnail |-> "pic"]}
ParseItems == {[url |-> "", lrc |-> ""], [url |-> "//cdn/stream", lrc |-> "[00:01]la"]}
\* (hasData is FALSE for a body without a data field)
ParseAnswers == {Null, [hasData |-> FALSE, data |-> <<>>]}
                  \cup {[hasData |-> TRUE, data |-> l] :
                           l \in {<<>>} \cup {<<it>> : it \in ParseItems}}

\* fixUrl on the urls above: '' stays '', '//...' gets the https: scheme
fixUrl(url) == IF url = "//cdn/stream" THEN "https://cdn/stream" ELSE url

\* `${platform}:${id}:${quality}`
CacheKey(platform, id, quality) == <<platform, ":">> \o id \o <<":", quality>>

CacheEntry(key) == CHOOSE e \in parseCache : e.key = key
\* cached && Date.now() - cached.timestamp < PARSE_CACHE_TTL
CacheFresh(key, now) ==
    /\ \E e \in parseCache : e.key = key
    /\ now - CacheEntry(key).timestamp < PARSE_CACHE_TTL

\* the part of parseSongs before its request: null for a missing argument or
\* a placeholder id, otherwise the request to the parse backend
parseSongsFirst(ids, platform) ==
    IF ids = EmptyString \/ platform = "" THEN "null"
    ELSE IF StartsWithTemp(ids) THEN "null"
    ELSE "tunehub"

\* where parseSongFull goes first
parseSongFullFirst(id, platform, quality) ==
    IF id = EmptyString \/ StartsWithTemp(id) THEN "null"
    ELSE IF platform = "piped" THEN "piped"
    ELSE IF platform = "youtube" THEN "youtube"
    ELSE IF CacheFresh(CacheKey(platform, id, quality), clock) THEN "cached"
    ELSE parseSongsFirst(id, platform)

\* where getSongUrl goes first
getSongUrlFirst(id, source) ==
    IF source = "" \/ source = "undefined" THEN "null"
    ELSE IF source = "piped" THEN "piped"
    ELSE IF source = "youtube" THEN "youtube"
    ELSE parseSongsFirst(id, source)

\* where getSongInfo goes first
getSongInfoFirst(id, source) ==
    IF source = "piped" THEN "piped"
    ELSE IF source = "youtube" THEN "youtube"
    ELSE parseSongsFirst(id, source)

\* where getLyrics goes first: '' at once for youtube; otherwise parseSongs,
\* whose null (no request made) gives '' as well
getLyricsFirst(id, source) ==
    IF source = "youtube" THEN "empty"
    ELSE IF parseSongsFirst(id, source) = "null" THEN "empty"
    ELSE "tunehub"

FirstStep(op, id, platform, quality) ==
    CASE op = "parseSongs" -> parseSongsFirst(id, platform)
      [] op = "getLyrics" -> getLyricsFirst(id, platform)
      [] op = "parseSongFull" -> parseSongFullFirst(id, platform, quality)
      [] op = "getSongUrl" -> getSongUrlFirst(id, platform)
      [] op = "getSongInfo" -> getSongInfoFirst(id, platform)

\* parseSongFull goes on to the cache only on the legacy path
ReadsCache(op, id, platform) ==
    /\ op = "parseSongFull"
    /\ ~(id = EmptyString \/ StartsWithTemp(id))
    /\ platform \notin {"piped", "youtube"}

\* the value built from a items list of the parse backend
FullFromItems(data) ==
    [url |-> IF fixUrl(data[1].url) = "" THEN Null ELSE [url |-> fixUrl(data[1].url)],
     lrc |-> data[1].lrc]

\* one invocation: its arguments, the client it awaits (client, "" for none)
\* and its result; history: readCache (it looked its key up in the cache)
IdleResolver ==
    [pc |-> "idle", op |-> "", id |-> EmptyString, platform |-> "", quality |-> "",
     client |-> "", readCache |-> FALSE, result |-> Null]

\* a resolver is called and runs up to its first await
ResolverCall(op, id, platform, quality) ==
    /\ rs.pc = "idle"
    /\ nresolves < MaxResolves
    /\ nresolves' = nresolves + 1
    /\ LET first == FirstStep(op, id, platform, quality)
           key == CacheKey(platform, id, quality)
           called == [IdleResolver EXCEPT !.op = op, !.id = id, !.platform = platform,
                                          !.quality = quality,
                                          !.readCache = ReadsCache(op, id, platform)]
       IN  CASE first = "null" ->
                     rs' = [called EXCEPT !.pc = "done"]
             [] first = "empty" ->
                     rs' = [called EXCEPT !.pc = "done", !.result = [lrc |-> ""]]
             [] first = "cached" ->
                     rs' = [called EXCEPT !.pc = "done",
                               !.result = FullFromItems(CacheEntry(key).data)]
             [] OTHER ->
                     rs' = [called EXCEPT !.pc = "awaiting", !.client = first]
    /\ UNCHANGED parseCache
    /\ UNCHANGED notRes

\* the YouTube or the Piped client answers (getAudioInfo / getStreamInfo)
ClientSettle(info) ==
    /\ rs.pc = "awaiting"
    /\ rs.client \in {"piped", "youtube"}
    /\ rs' = [rs EXCEPT !.pc = "done",
                 !.result =
                    IF info = Null THEN Null
                    ELSE CASE rs.op = "getSongUrl" ->
                                 IF info.audioUrl = "" THEN Null
                                 ELSE [url |-> info.audioUrl]
                           [] rs.op = "getSongInfo" ->
                                 [id |-> rs.id, source |-> rs.client, pic |-> info.thumbnail]
                           [] OTHER ->
                                 [url |-> IF info.audioUrl = "" THEN Null
                                          ELSE [url |-> info.audioUrl],
                                  lrc |-> ""]]
    /\ UNCHANGED <<nresolves, parseCache>>
    /\ UNCHANGED notRes

\* the parse backend answers: parseSongs returns extractList(res.data) or
\* null, and its caller goes on with that
ParseSettle(res) ==
    /\ rs.pc = "awaiting"
    /\ rs.client = "tunehub"
    /\ LET missing == res = Null \/ ~res.hasData
           data == IF missing THEN <<>> ELSE res.data
           empty == data = <<>>
           key == CacheKey(rs.platform, rs.id, rs.quality)
       IN  /\ rs' = [rs EXCEPT !.pc = "done",
                        !.result =
                           CASE rs.op = "parseSongs" ->
                                    IF missing THEN Null ELSE [list |-> data]
                             [] rs.op = "getSongUrl" ->
                                    IF empty \/ fixUrl(data[1].url) = "" THEN Null
                                    ELSE [url |-> fixUrl(data[1].url)]
                             [] rs.op = "getSongInfo" ->
                                    IF empty THEN Null
                                    ELSE [id |-> rs.id, source |-> rs.platform, pic |-> ""]
                             [] rs.op = "getLyrics" ->
                                    [lrc |-> IF empty THEN "" ELSE data[1].lrc]
                             [] OTHER ->
                                    IF empty THEN Null ELSE FullFromItems(data)]
           /\ parseCache' =
                 IF rs.op = "parseSongFull" /\ ~empty
                 THEN {e \in parseCache : e.key # key}
                        \cup {[key |-> key, data |-> data, timestamp |-> clock]}
                 ELSE parseCache
    /\ UNCHANGED nresolves
    /\ UNCHANGED notRes

\* the caller has the result
ResolverReturn ==
    /\ rs.pc = "done"
    /\ rs' = IdleResolver
    /\ UNCHANGED <<nresolves, parseCache>>
    /\ UNCHANGED notRes

ResInit ==
    /\ rs = IdleResolver
    /\ nresolves = 0
    /\ parseCache = {}

ResNext ==
    \/ \E op \in ResolverOps, id \in Ids, platform \in Platforms, quality \in Qualities :
          ResolverCall(op, id, platform, quality)
    \/ \E info \in ClientAnswers : ClientSettle(info)
    \/ \E res \in ParseAnswers : ParseSettle(res)
    \/ ResolverReturn
    \/ \E d \in TickSteps : Tick(d)

\* the two resolvers that give lyrics
LyricsOps == {"getLyrics", "parseSongFull"}

LyricsNext ==
    \/ \E op \in LyricsOps, id \in Ids, platform \in Platforms, quality \in Qualities :
          ResolverCall(op, id, platform, quality)
    \/ \E info \in ClientAnswers : ClientSettle(info)
    \/ \E res \in ParseAnswers : ParseSettle(res)
    \/ ResolverReturn

(***************************************************************************)
(* Playback engine: PlayerProvider (src/App.tsx)                           *)
(*                                                                         *)
(* A state update takes effect in the next render; the mirror effects      *)
(* (currentSongRef, queueRef) and the closures of the callbacks            *)
(* (togglePlay, setAudioQuality) see it from the commit of that render.    *)
(* An update made in a user-interface handler is committed before the      *)
(* handler's task ends; one made in a media-element event handler or after *)
(* an await is committed by a later render (Commit).  The quality and the  *)
(* play mode are set by user-interface handlers only, so audioQualityRef   *)
(* and playModeRef always hold the committed value when a handler starts.  *)
(***************************************************************************)
MaxInFlight == 2
MaxAutoRetries == 2

SongA == [id |-> "a", source |-> "youtube"]
SongB == [id |-> "b", source |-> "piped"]
Songs == {SongA, SongB}
AudioQualities == {"128k", "320k"}
PlayModes == {"sequence", "loop", "shuffle"}

\* forceQuality left out of the call
NoForce == ""
\* an audio element without src
NoSrc == <<>>
\* the url a client resolved for a song
StreamUrl(client, song) == <<client, song.id>>
\* new Audio()
NewAudio == [src |-> NoSrc, status |-> "empty", paused |-> TRUE]

\* what localStorage may hold at mount: current song and queue
Persisted == {[song |-> Null, queue |-> <<>>], [song |-> SongA, queue |-> <<SongA>>]}

\* the engine's state as one record
Player ==
    [currentSong |-> currentSong, currentSongRef |-> currentSongRef,
     isPlaying |-> isPlaying, renderedIsPlaying |-> renderedIsPlaying,
     isLoading |-> isLoading, queue |-> queue, queueRef |-> queueRef,
     playMode |-> playMode, audioQuality |-> audioQuality,
     retryCountRef |-> retryCountRef, autoRetries |-> autoRetries,
     audio |-> audio, plays |-> plays]

\* the engine goes to the state r
Become(r) ==
    /\ Len(r.plays) <= MaxInFlight
    /\ r.autoRetries <= MaxAutoRetries
    /\ currentSong' = r.currentSong
    /\ currentSongRef' = r.currentSongRef
    /\ isPlaying' = r.isPlaying
    /\ renderedIsPlaying' = r.renderedIsPlaying
    /\ isLoading' = r.isLoading
    /\ queue' = r.queue
    /\ queueRef' = r.queueRef
    /\ playMode' = r.playMode
    /\ audioQuality' = r.audioQuality
    /\ retryCountRef' = r.retryCountRef
    /\ autoRetries' = r.autoRetries
    /\ audio' = r.audio
    /\ plays' = r.plays

\* the render that follows the updates: the mirror effects and the closures
\* take the new values
Render(p) ==
    [p EXCEPT !.currentSongRef = p.currentSong,
              !.queueRef = p.queue,
              !.renderedIsPlaying = p.isPlaying]

HasSourceNever(a) == FALSE
\* audioRef.current.src && audioRef.current.src !== window.location.href
HasSource(a) == a.src # NoSrc

InQueueNever(q, id) == FALSE
\* prev.find(s => String(s.id) === String(id))
InQueue(q, id) == \E k \in 1..Len(q) : q[k].id = id

\* q.findIndex(s => String(s.id) === String(c.id)), 0-based, -1 when c is
\* null or absent
FindIndex(q, c) ==
    IF c # Null /\ InQueue(q, c.id)
    THEN (CHOOSE k \in 1..Len(q) :
             q[k].id = c.id /\ \A j \in 1..(k - 1) : q[j].id # c.id) - 1
    ELSE -1

\* audio.play(): playback (re)starts unless the element has failed
play(a) ==
    IF a.status = "failed" THEN a
    ELSE [a EXCEPT !.paused = FALSE,
                   !.status = IF @ = "ended" THEN "loaded" ELSE @]

\* playSong past the toggle branch, up to its first await: isLoading, the
\* retry counter, currentSong, the queue, and the resolution request
\* (autoRetries counts the automatic re-invocations since that reset)
playSongStart(p, song, forceQuality) ==
    [p EXCEPT !.isLoading = TRUE,
              !.retryCountRef = IF forceQuality = NoForce THEN 0 ELSE @,
              !.autoRetries = IF forceQuality = NoForce THEN 0 ELSE @,
              !.currentSong = song,
              !.queue = IF InQueue(@, song.id) THEN @ ELSE Append(@, song),
              !.plays = Append(@, [song |-> song, forceQuality |-> forceQuality,
                                   pc |-> IF song.source = "piped"
                                          THEN "piped" ELSE "youtube"])]

\* togglePlay with a source loaded: pause or play by the rendered isPlaying
togglePlayLoaded(p) ==
    IF p.renderedIsPlaying
    THEN [p EXCEPT !.audio.paused = TRUE, !.isPlaying = FALSE]
    ELSE [p EXCEPT !.audio = play(@), !.isPlaying = TRUE]

togglePlay(p) ==
    IF p.currentSongRef = Null THEN p
    ELSE IF ~HasSource(p.audio) THEN playSongStart(p, p.currentSongRef, NoForce)
    ELSE togglePlayLoaded(p)

playSong(p, song, forceQuality) ==
    LET isSameSong == p.currentSongRef # Null /\ p.currentSongRef.id = song.id
        isDifferentQuality == forceQuality # NoForce /\ forceQuality # p.audioQuality
    IN  IF isSameSong /\ ~isDifferentQuality /\ forceQuality = NoForce
           /\ HasSource(p.audio)
        THEN togglePlay(p)
        ELSE playSongStart(p, song, forceQuality)

\* playSong after the resolution: the stale check, then load and play, or
\* the reset for a missing url
playSongResolved(p, song, url) ==
    IF p.currentSongRef = Null \/ p.currentSongRef.id # song.id THEN p
    ELSE IF url # NoSrc
    THEN [p EXCEPT !.audio = [src |-> url, status |-> "loading", paused |-> FALSE],
                   !.isPlaying = TRUE,
                   !.isLoading = FALSE]
    ELSE [p EXCEPT !.isLoading = FALSE, !.isPlaying = FALSE]

\* the next index playNext takes; rnd is Math.floor(Math.random() * q.length)
NextIndex(q, c, mode, rnd) ==
    IF mode = "shuffle" THEN rnd ELSE (FindIndex(q, c) + 1) % Len(q)

playNext(p, force, rnd) ==
    LET q == p.queueRef
    IN  IF q = <<>> THEN p
        ELSE IF ~force /\ p.playMode = "loop"
        THEN [p EXCEPT !.audio = play(@)]
        ELSE playSong(p, q[NextIndex(q, p.currentSongRef, p.playMode, rnd) + 1], NoForce)

\* the indexes of the longest queue
QueueIndexes == 0..(Cardinality(Songs) - 1)

RandomIndexesAny(p) ==
    IF Len(p.queueRef) > 0 THEN 0..(Len(p.queueRef) - 1) ELSE {0}

\* the values Math.random() can lead playNext to: in shuffle mode any index
\* but the current one when the queue has more than one entry
RandomIndexes(p) ==
    IF p.playMode = "shuffle" /\ Len(p.queueRef) > 0
    THEN {k \in 0..(Len(p.queueRef) - 1) :
             Len(p.queueRef) > 1 => k # FindIndex(p.queueRef, p.currentSongRef)}
    ELSE {0}

ShouldRetryNever(p) == FALSE
\* currentSongRef.current && audioQualityRef.current !== '128k'
\*   && retryCountRef.current === 0
ShouldRetry(p) ==
    p.currentSongRef # Null /\ p.audioQuality # "128k" /\ p.retryCountRef = 0

\* the sequence s without its i-th element
RemoveAt(s, i) == SubSeq(s, 1, i - 1) \o SubSeq(s, i + 1, Len(s))

\* PlayerProvider mounts: state from localStorage, createAudioElement(false)
Mount(persisted, quality) ==
    /\ ~mounted
    /\ mounted' = TRUE
    /\ Become(Render([Player EXCEPT !.currentSong = persisted.song,
                                    !.queue = persisted.queue,
                                    !.audioQuality = quality,
                                    !.audio = NewAudio]))
    /\ UNCHANGED notPlayer

\* the user picks a song: playSong(song)
UserPlaySong(song) ==
    /\ mounted
    /\ Become(Render(playSong(Player, song, NoForce)))
    /\ UNCHANGED <<mounted, notPlayer>>

\* the user presses play/pause
UserTogglePlay ==
    /\ mounted
    /\ Become(Render(togglePlay(Player)))
    /\ UNCHANGED <<mounted, notPlayer>>

\* the user presses next: playNext()
UserPlayNext(rnd) ==
    /\ mounted
    /\ rnd \in RandomIndexes(Player)
    /\ Become(Render(playNext(Player, TRUE, rnd)))
    /\ UNCHANGED <<mounted, notPlayer>>

addToQueue(song) ==
    /\ mounted
    /\ Become(Render([Player EXCEPT
                        !.queue = IF InQueue(@, song.id) THEN @ ELSE Append(@, song)]))
    /\ UNCHANGED <<mounted, notPlayer>>

removeFromQueue(songId) ==
    /\ mounted
    /\ Become(Render([Player EXCEPT
                        !.queue = SelectSeq(@, LAMBDA s : s.id # songId)]))
    /\ UNCHANGED <<mounted, notPlayer>>

clearQueue ==
    /\ mounted
    /\ Become(Render([Player EXCEPT !.queue = <<>>]))
    /\ UNCHANGED <<mounted, notPlayer>>

togglePlayMode ==
    /\ mounted
    /\ Become(Render([Player EXCEPT
                        !.playMode = CASE @ = "sequence" -> "loop"
                                       [] @ = "loop" -> "shuffle"
                                       [] OTHER -> "sequence"]))
    /\ UNCHANGED <<mounted, notPlayer>>

\* setAudioQuality(q): the rendered currentSong and isPlaying decide whether
\* the current song is played again with q forced
setAudioQuality(q) ==
    /\ mounted
    /\ LET p == IF Player.currentSongRef # Null /\ Player.renderedIsPlaying
                THEN playSong(Player, Player.currentSongRef, q)
                ELSE Player
       IN  Become(Render([p EXCEPT !.audioQuality = q]))
    /\ UNCHANGED <<mounted, notPlayer>>

\* youtube.getAudioUrl answers the i-th playSong in flight: with a url it
\* goes on to load, without one it asks Piped
youtubeGetAudioUrlSettle(i, found) ==
    /\ i \in 1..Len(plays)
    /\ plays[i].pc = "youtube"
    /\ IF found
       THEN Become(playSongResolved([Player EXCEPT !.plays = RemoveAt(@, i)],
                                    plays[i].song, StreamUrl("youtube", plays[i].song)))
       ELSE Become([Player EXCEPT !.plays[i].pc = "fallback"])
    /\ UNCHANGED <<mounted, notPlayer>>

\* piped.getAudioUrl answers the i-th playSong in flight
pipedGetAudioUrlSettle(i, found) ==
    /\ i \in 1..Len(plays)
    /\ plays[i].pc \in {"piped", "fallback"}
    /\ Become(playSongResolved([Player EXCEPT !.plays = RemoveAt(@, i)],
                               plays[i].song,
                               IF found THEN StreamUrl("piped", plays[i].song)
                               ELSE NoSrc))
    /\ UNCHANGED <<mounted, notPlayer>>

\* the play() promise of playSong rejects with NotAllowedError
playRejected ==
    /\ audio.status = "loading"
    /\ ~audio.paused
    /\ Become([Player EXCEPT !.audio.paused = TRUE,
                             !.isPlaying = FALSE,
                             !.isLoading = FALSE])
    /\ UNCHANGED <<mounted, notPlayer>>

\* handlers.loadedmetadata
loadedmetadata ==
    /\ audio.status = "loading"
    /\ Become([Player EXCEPT !.audio.status = "loaded",
                             !.isLoading = FALSE,
                             !.retryCountRef = 0])
    /\ UNCHANGED <<mounted, notPlayer>>

\* handlers.ended: the track played to its end
ended(rnd) ==
    /\ audio.status = "loaded"
    /\ ~audio.paused
    /\ rnd \in RandomIndexes(Player)
    /\ Become(playNext([Player EXCEPT !.audio.status = "ended",
                                      !.audio.paused = TRUE],
                       FALSE, rnd))
    /\ UNCHANGED <<mounted, notPlayer>>

\* handlers.error: the element failed to load or to play its source
error ==
    /\ audio.status \in {"loading", "loaded"}
    /\ LET p == [Player EXCEPT !.audio.status = "failed", !.audio.paused = TRUE]
       IN  IF ShouldRetry(p)
           THEN Become(playSong([p EXCEPT !.retryCountRef = 1,
                                          !.autoRetries = @ + 1],
                                p.currentSongRef, "128k"))
           ELSE Become([p EXCEPT !.isLoading = FALSE,
                                 !.isPlaying = FALSE,
                                 !.retryCountRef = 0])
    /\ UNCHANGED <<mounted, notPlayer>>

\* React renders the pending updates
Commit ==
    /\ Render(Player) # Player
    /\ Become(Render(Player))
    /\ UNCHANGED <<mounted, notPlayer>>

(***************************************************************************)
(* The analysis graph (src/App.tsx): the audio context with its analyser   *)
(* and source node, which initAudioContext attaches to the element unless  *)
(* the platform signature is that of iOS                                   *)
(***************************************************************************)
\* isIOS: isIOSRef.current; ctx: audioCtxRef.current and sourceNodeRef.current
\* are there; connected: audioCtxConnectedRef.current; analyser: the analyser
\* state is a node; routed: source and analyser are connected; crossOrigin:
\* the element has crossOrigin = "anonymous"; loaded (history): the mode of
\* the element that playSong last loaded a url into ("" before the first)
NoGraph(ios) ==
    [isIOS |-> ios, ctx |-> FALSE, connected |-> FALSE, analyser |-> FALSE,
     routed |-> FALSE, crossOrigin |-> FALSE, loaded |-> ""]

\* createAudioElement(withCors), for the graph: an audio context there is is
\* closed and forgotten with its nodes, and the new element has crossOrigin
\* set when withCors
createAudioElement(g, withCors) ==
    [(IF g.ctx THEN [NoGraph(g.isIOS) EXCEPT !.loaded = g.loaded] ELSE g)
        EXCEPT !.crossOrigin = withCors]

\* audioRef.current.src = url; audioRef.current.load()
loadUrl(g) == [g EXCEPT !.loaded = IF g.crossOrigin THEN "anonymous" ELSE "plain"]

isIOSNever(g) == FALSE
\* isIOSRef.current
isIOS(g) == g.isIOS

\* initAudioContext: nothing on iOS or with a context there; otherwise the
\* context, the analyser and the source node are made and connected
initAudioContext(g) ==
    IF isIOS(g) \/ g.ctx THEN g
    ELSE [g EXCEPT !.ctx = TRUE, !.connected = TRUE, !.analyser = TRUE,
                   !.routed = TRUE]

\* the graph over the step in which the i-th playSong has its url, or has
\* none: with a url for the current song, a new element unless one is
\* connected, then initAudioContext
GraphOfResolution(i, hasUrl) ==
    LET current == currentSongRef # Null /\ currentSongRef.id = plays[i].song.id
    IN  graph' = IF hasUrl /\ current /\ Len(plays') < Len(plays)
                 THEN loadUrl(initAudioContext(IF graph.connected THEN graph
                                               ELSE createAudioElement(graph, TRUE)))
                 ELSE graph

\* a consumer of the context calls initAudioContext()
UserInitAudioContext ==
    /\ mounted
    /\ Become(Render(Player))
    /\ graph' = initAudioContext(graph)
    /\ UNCHANGED <<mounted, notPlayer>>

\* handleVisibility: hidden takes source and analyser out of the route,
\* visible puts them back; nothing is done without a context
visibilitychange(hidden) ==
    /\ mounted
    /\ graph' = [graph EXCEPT !.routed = IF graph.ctx THEN ~hidden ELSE @]
    /\ UNCHANGED <<playerVars, notPlayer>>

\* the engine with its analysis graph, on iOS and elsewhere
RoutingNext ==
    \/ \E persisted \in Persisted, quality \in AudioQualities, ios \in BOOLEAN :
          Mount(persisted, quality) /\ graph' = NoGraph(ios) /\ UNCHANGED urls
    \/ \E song \in Songs : UserPlaySong(song) /\ UNCHANGED engineVars
    \/ UserTogglePlay /\ UNCHANGED engineVars
    \/ \E i \in 1..MaxInFlight, found \in BOOLEAN :
          /\ youtubeGetAudioUrlSettle(i, found)
          /\ GraphOfResolution(i, found)
          /\ UNCHANGED urls
    \/ \E i \in 1..MaxInFlight, found \in BOOLEAN :
          /\ pipedGetAudioUrlSettle(i, found)
          /\ GraphOfResolution(i, found)
          /\ UNCHANGED urls
    \/ loadedmetadata /\ UNCHANGED engineVars
    \/ error /\ UNCHANGED engineVars
    \/ UserInitAudioContext /\ UNCHANGED urls
    \/ \E hidden \in BOOLEAN : visibilitychange(hidden) /\ UNCHANGED urls
    \/ Commit /\ UNCHANGED engineVars

\* no song object carries a url, nothing is in localStorage
NoUrls ==
    [currentSong |-> FALSE, currentSongRef |-> FALSE, queue |-> <<>>, calls |-> <<>>,
     changed |-> [song |-> FALSE, queue |-> FALSE],
     stored |-> [song |-> FALSE, queue |-> FALSE]]

PlayerInit ==
    /\ urls = NoUrls
    /\ graph = NoGraph(FALSE)
    /\ mounted = FALSE
    /\ currentSong = Null
    /\ currentSongRef = Null
    /\ isPlaying = FALSE
    /\ renderedIsPlaying = FALSE
    /\ isLoading = FALSE
    /\ queue = <<>>
    /\ queueRef = <<>>
    /\ playMode = "sequence"
    /\ audioQuality = "320k"
    /\ retryCountRef = 0
    /\ autoRetries = 0
    /\ audio = NewAudio
    /\ plays = <<>>

(***************************************************************************)
(* The url property of the song objects (src/App.tsx).  playSong makes     *)
(* fullSong, a copy of the song it is given, current and, with its id      *)
(* absent, the last queue entry: one object in both places, which gets its *)
(* url when the resolution has succeeded.  urls tells which objects carry  *)
(* a url (the current song in state, the one currentSongRef holds, the     *)
(* queue entries), for each playSong in flight whether its fullSong still  *)
(* is one of these objects, and what the effects wrote to localStorage.    *)
(* The songs the user picks and the songs of localStorage carry no url.    *)
(***************************************************************************)
\* some entry carries a url
AnyUrl(flags) == \E k \in 1..Len(flags) : flags[k]

\* the flag of the entry of q with this id
FlagOf(q, flags, id) == flags[CHOOSE k \in 1..Len(q) : q[k].id = id]

\* let fullSong = { ...song }; setCurrentSong(fullSong); setQueue(...):
\* hasUrl tells whether the song copied carries a url, q is the queue
fullSong(t, q, song, hasUrl) ==
    [t EXCEPT !.currentSong = hasUrl,
              !.queue = IF InQueue(q, song.id) THEN @ ELSE Append(@, hasUrl),
              !.calls = Append([k \in 1..Len(@) |-> [@[k] EXCEPT !.isCur = FALSE]],
                               [isCur |-> TRUE, isRef |-> FALSE,
                                isEntry |-> ~InQueue(q, song.id)]),
              !.changed = [song |-> TRUE,
                           queue |-> @.queue \/ ~InQueue(q, song.id)]]

\* the effects of a render: a changed queue and a changed currentSong are
\* written to localStorage as JSON.stringify gives them, the refs take the
\* state's objects
persistenceEffects(t) ==
    [t EXCEPT !.currentSongRef = t.currentSong,
              !.calls = [k \in 1..Len(@) |-> [@[k] EXCEPT !.isRef = t.calls[k].isCur]],
              !.stored = [song |-> IF t.changed.song THEN t.currentSong ELSE @.song,
                          queue |-> IF t.changed.queue THEN AnyUrl(t.queue)
                                    ELSE @.queue],
              !.changed = [song |-> FALSE, queue |-> FALSE]]

\* fullSong.url = url, for the i-th playSong in flight
setUrl(t, q, i, song) ==
    [t EXCEPT !.currentSong = @ \/ t.calls[i].isCur,
              !.currentSongRef = @ \/ t.calls[i].isRef,
              !.queue = [k \in 1..Len(@) |->
                            @[k] \/ (t.calls[i].isEntry /\ q[k].id = song.id)]]

\* the flags of the entries of q that a filter on the id keeps
KeptFlags(q, flags, songId) ==
    LET F[k \in 0..Len(q)] ==
            IF k = 0 THEN <<>>
            ELSE IF q[k].id # songId THEN Append(F[k - 1], flags[k]) ELSE F[k - 1]
    IN  F[Len(q)]

\* the step has taken playSong past its toggle branch
StartsPlay == Len(plays') > Len(plays)

\* urls over a step that may call playSong: from tells where the song given
\* comes from ("list": a list of the interface, "ref": currentSongRef,
\* "queue": the queue), renders whether the step ends with a render
UrlsOfPlay(from, renders) ==
    LET song == plays'[Len(plays')].song
        hasUrl == CASE from = "ref" -> urls.currentSongRef
                    [] from = "queue" -> FlagOf(queue, urls.queue, song.id)
                    [] OTHER -> FALSE
        t == IF StartsPlay THEN fullSong(urls, queue, song, hasUrl) ELSE urls
    IN  urls' = IF renders THEN persistenceEffects(t) ELSE t

\* urls over the step in which the i-th playSong has its url, or has none
UrlsOfResolution(i, hasUrl) ==
    LET song == plays[i].song
        current == currentSongRef # Null /\ currentSongRef.id = song.id
        t == IF hasUrl /\ current THEN setUrl(urls, queue, i, song) ELSE urls
    IN  urls' = IF Len(plays') < Len(plays)
                THEN [t EXCEPT !.calls = RemoveAt(@, i)] ELSE urls

\* urls over a queue edit
UrlsOfEdit(flags, calls) ==
    urls' = persistenceEffects([urls EXCEPT !.queue = flags, !.calls = calls,
                                            !.changed.queue = TRUE])

\* a render for nothing but the effects: an object has taken the place of
\* an equal one
RenderEffects ==
    /\ mounted
    /\ Render(Player) = Player
    /\ urls.changed.song \/ urls.changed.queue
    /\ urls' = persistenceEffects(urls)
    /\ UNCHANGED <<playerVars, notPlayer>>

\* the engine with the url property of its songs
PersistNext ==
    \/ \E persisted \in Persisted, quality \in AudioQualities :
          /\ Mount(persisted, quality)
          /\ urls' = persistenceEffects(
                         [NoUrls EXCEPT
                             !.queue = [k \in 1..Len(persisted.queue) |-> FALSE],
                             !.changed = [song |-> TRUE, queue |-> TRUE]])
          /\ UNCHANGED graph
    \/ \E song \in Songs :
          UserPlaySong(song) /\ UrlsOfPlay("list", TRUE) /\ UNCHANGED graph
    \/ \E song \in Songs :
          /\ addToQueue(song)
          /\ IF InQueue(queue, song.id)
             THEN urls' = persistenceEffects(urls)
             ELSE UrlsOfEdit(Append(urls.queue, FALSE), urls.calls)
          /\ UNCHANGED graph
    \/ \E song \in Songs :
          /\ removeFromQueue(song.id)
          /\ UrlsOfEdit(KeptFlags(queue, urls.queue, song.id),
                        [k \in 1..Len(plays) |->
                            [urls.calls[k] EXCEPT
                                !.isEntry = @ /\ plays[k].song.id # song.id]])
          /\ UNCHANGED graph
    \/ /\ clearQueue
       /\ UrlsOfEdit(<<>>, [k \in 1..Len(plays) |->
                               [urls.calls[k] EXCEPT !.isEntry = FALSE]])
       /\ UNCHANGED graph
    \/ \E i \in 1..MaxInFlight, found \in BOOLEAN :
          /\ youtubeGetAudioUrlSettle(i, found)
          /\ UrlsOfResolution(i, found)
          /\ UNCHANGED graph
    \/ \E i \in 1..MaxInFlight, found \in BOOLEAN :
          /\ pipedGetAudioUrlSettle(i, found)
          /\ UrlsOfResolution(i, found)
          /\ UNCHANGED graph
    \/ loadedmetadata /\ UNCHANGED engineVars
    \/ \E rnd \in QueueIndexes :
          ended(rnd) /\ UrlsOfPlay("queue", FALSE) /\ UNCHANGED graph
    \/ error /\ UrlsOfPlay("ref", FALSE) /\ UNCHANGED graph
    \/ Commit /\ urls' = persistenceEffects(urls) /\ UNCHANGED graph
    \/ RenderEffects /\ UNCHANGED graph

PlayerNext ==
    \/ \E persisted \in Persisted, quality \in AudioQualities : Mount(persisted, quality) /\ UNCHANGED engineVars
    \/ \E song \in Songs : UserPlaySong(song) /\ UNCHANGED engineVars
    \/ UserTogglePlay /\ UNCHANGED engineVars
    \/ \E rnd \in QueueIndexes : UserPlayNext(rnd) /\ UNCHANGED engineVars
    \/ \E q \in AudioQualities : setAudioQuality(q) /\ UNCHANGED engineVars
    \/ \E i \in 1..MaxInFlight, found \in BOOLEAN : youtubeGetAudioUrlSettle(i, found) /\ UNCHANGED engineVars
    \/ \E i \in 1..MaxInFlight, found \in BOOLEAN : pipedGetAudioUrlSettle(i, found) /\ UNCHANGED engineVars
    \/ playRejected /\ UNCHANGED engineVars
    \/ loadedmetadata /\ UNCHANGED engineVars
    \/ \E rnd \in QueueIndexes : ended(rnd) /\ UNCHANGED engineVars
    \/ error /\ UNCHANGED engineVars
    \/ Commit /\ UNCHANGED engineVars

(***************************************************************************)
(* Piped client operations (src/services/piped.ts): each one awaits        *)
(* pipedFetch, reads the body as JSON and maps it, inside try/catch        *)
(***************************************************************************)
PipedOps == {"searchAudio", "getStreamInfo", "getAudioUrl", "getRelatedAudio",
             "getPlaylistInfo", "getChannelInfo"}
ListOps == {"searchAudio", "getRelatedAudio"}

\* the bodies a mirror may send with a JSON content type: text that is not
\* JSON, the JSON null, an object without the field the operation reads, the
\* field holding something that is no array, an array with null entries
\* (one for the streams, where a lone entry is never compared), and a body
\* of the documented shape
Bodies == {"unparsable", "null", "noField", "wrongType", "nullItem", "ok"}

\* what an operation comes to
Threw == [status |-> "rejected", kind |-> "error", items |-> <<>>, url |-> ""]
Value(kind, items, url) ==
    [status |-> "fulfilled", kind |-> kind, items |-> items, url |-> url]
EmptyList == Value("list", <<>>, "")
NullValue == Value("null", <<>>, "")

\* the try block of searchAudio past its pipedFetch
searchAudioBody(body) ==
    CASE body \in {"unparsable", "null", "nullItem"} -> Threw
      [] body \in {"noField", "wrongType"} -> EmptyList
      [] OTHER -> Value("list", <<"v1">>, "")

\* the try block of getRelatedAudio: the body itself is the array
getRelatedAudioBody(body) ==
    CASE body \in {"unparsable", "nullItem"} -> Threw
      [] body \in {"null", "noField", "wrongType"} -> EmptyList
      [] OTHER -> Value("list", <<"v1">>, "")

\* the try block of getStreamInfo: audioStreams || [], sorted by bitrate,
\* the first one's url or null, the other fields with their defaults
getStreamInfoBody(body) ==
    CASE body \in {"unparsable", "null", "wrongType"} -> Threw
      [] body \in {"noField", "nullItem"} -> Value("info", <<>>, "")
      [] OTHER -> Value("info", <<>>, "https://stream")

\* the try block of getPlaylistInfo and of getChannelInfo
getCollectionBody(body) ==
    CASE body \in {"unparsable", "null", "nullItem"} -> Threw
      [] body \in {"noField", "wrongType"} -> NullValue
      [] OTHER -> Value("collection", <<"v1">>, "")

NoCatch(r, fallback) == r
\* catch (error) { ...; return fallback }
Catch(r, fallback) == IF r = Threw THEN fallback ELSE r

\* an operation with the response of its pipedFetch (Null for none) and the
\* body of that response
searchAudioOp(response, body) ==
    Catch(IF response = Null THEN EmptyList ELSE searchAudioBody(body), EmptyList)

getRelatedAudioOp(response, body) ==
    Catch(IF response = Null THEN EmptyList ELSE getRelatedAudioBody(body), EmptyList)

getStreamInfoOp(response, body) ==
    Catch(IF response = Null THEN NullValue ELSE getStreamInfoBody(body), NullValue)

\* info?.audioUrl || null
getAudioUrlOp(response, body) ==
    LET info == getStreamInfoOp(response, body)
    IN  IF info.kind = "info" /\ info.url # ""
        THEN Value("url", <<>>, info.url) ELSE NullValue

getCollectionOp(response, body) ==
    Catch(IF response = Null THEN NullValue ELSE getCollectionBody(body), NullValue)

PipedOpResult(name, response, body) ==
    CASE name = "searchAudio" -> searchAudioOp(response, body)
      [] name = "getRelatedAudio" -> getRelatedAudioOp(response, body)
      [] name = "getStreamInfo" -> getStreamInfoOp(response, body)
      [] name = "getAudioUrl" -> getAudioUrlOp(response, body)
      [] OTHER -> getCollectionOp(response, body)

IdleOp == [pc |-> "idle", name |-> "", fetched |-> FALSE, body |-> "", result |-> NullValue]

\* the operation name goes on after its pipedFetch (slot c) has returned:
\* it reads the body, if there is a response, and comes to its result
pipedOperation(c, name, body) ==
    /\ pf[c].pc = "done"
    /\ pop.pc = "idle"
    /\ pf[c].result = Null => body = "ok"
    /\ pf' = [pf EXCEPT ![c] = IdleFetch]
    /\ pop' = [pc |-> "done", name |-> name, fetched |-> pf[c].result # Null,
               body |-> IF pf[c].result = Null THEN "" ELSE body,
               result |-> PipedOpResult(name, pf[c].result, body)]
    /\ UNCHANGED <<PIPED_INSTANCES, currentInstanceIndex, BROKEN_INSTANCES, clock,
                   nticks, nfetches, remoteLoaded>>
    /\ UNCHANGED <<aggVars, resVars, playerVars, engineVars, youtubeVars, visualizerVars,
                   proxyVars, lookupVars>>

\* the caller has the result
pipedOperationReturn ==
    /\ pop.pc = "done"
    /\ pop' = IdleOp
    /\ UNCHANGED <<pipedVars, aggVars, resVars, playerVars, engineVars, youtubeVars,
                   visualizerVars, proxyVars, lookupVars>>

PipedOpsInit == pop = IdleOp

PipedOpsNext ==
    \/ \E c \in FetchSlots : pipedFetchStart(c)
    \/ \E c \in FetchSlots, r \in Outcomes : pipedFetchSettle(c, r)
    \/ \E c \in FetchSlots, name \in PipedOps, body \in Bodies : pipedOperation(c, name, body)
    \/ pipedOperationReturn

(***************************************************************************)
(* YouTube client (src/services/youtube.ts): the calls swap window.fetch   *)
(* for proxiedFetch around their awaits                                    *)
(***************************************************************************)
YtSlots == {1, 2}
YtOps == {"searchAudio", "getAudioInfo"}
\* what a function of the extraction module comes to
Settles == {"value", "nothing", "throw"}

Original == "originalFetch"
Proxied == "proxiedFetch"

KeepOnError(f) == f
\* catch (error) { window.fetch = originalFetch; ... }
RestoreOnError(f) == Original

\* one call: where it is, which path it ended on, and whether a request made
\* for it by the extraction module went out while window.fetch was the
\* original (history)
IdleCall == [pc |-> "idle", op |-> "", path |-> "", direct |-> FALSE]

\* the call past loadYoutubeModule, with the module or without
AfterLoad(call, mod) ==
    IF ~mod THEN [call EXCEPT !.pc = "done", !.path = "empty"]
    ELSE [call EXCEPT !.pc = IF call.op = "searchAudio"
                             THEN "youtubeMusicSearch" ELSE "getData"]

\* a client operation is called; with the module imported it installs the
\* override and calls the module, otherwise it installs it for the import
youtubeCall(c, op) ==
    /\ ytCalls[c].pc = "idle"
    /\ \A d \in YtSlots : d < c => ytCalls[d].pc # "idle"
    /\ IF youtubeModule
       THEN /\ ytCalls' = [ytCalls EXCEPT ![c] = AfterLoad([IdleCall EXCEPT !.op = op], TRUE)]
            /\ windowFetch' = Proxied
       ELSE /\ ytCalls' = [ytCalls EXCEPT ![c] = [IdleCall EXCEPT !.op = op, !.pc = "import"]]
            /\ windowFetch' = Proxied
    /\ UNCHANGED youtubeModule
    /\ UNCHANGED notYoutube

\* the import of loadYoutubeModule settles: window.fetch is restored, and
\* with the module the call installs the override again and calls it
importSettle(c, ok) ==
    /\ ytCalls[c].pc = "import"
    /\ youtubeModule' = (youtubeModule \/ ok)
    /\ ytCalls' = [ytCalls EXCEPT ![c] = AfterLoad(@, ok)]
    /\ windowFetch' = IF ok THEN Proxied ELSE RestoreOnError(windowFetch)
    /\ UNCHANGED notYoutube

\* the extraction module makes a network request for call c
moduleRequest(c) ==
    /\ ytCalls[c].pc \in {"youtubeMusicSearch", "getData", "getTrackData"}
    /\ ytCalls' = [ytCalls EXCEPT ![c].direct = @ \/ windowFetch = Original]
    /\ UNCHANGED <<windowFetch, youtubeModule>>
    /\ UNCHANGED notYoutube

\* mod.youtubeMusicSearch settles
youtubeMusicSearchSettle(c, s) ==
    /\ ytCalls[c].pc = "youtubeMusicSearch"
    /\ ytCalls' = [ytCalls EXCEPT ![c].pc = "done",
                        ![c].path = CASE s = "value" -> "success"
                                      [] s = "nothing" -> "empty"
                                      [] OTHER -> "error"]
    /\ windowFetch' = IF s = "throw" THEN RestoreOnError(windowFetch) ELSE Original
    /\ UNCHANGED youtubeModule
    /\ UNCHANGED notYoutube

\* mod.getData settles: with data the override is removed and the info
\* built (built tells whether that worked; the outer catch takes what is
\* thrown there), otherwise getTrackData is tried
getDataSettle(c, s, built) ==
    /\ ytCalls[c].pc = "getData"
    /\ IF s = "value"
       THEN /\ ytCalls' = [ytCalls EXCEPT ![c].pc = "done",
                               ![c].path = IF built THEN "success" ELSE "error"]
            /\ windowFetch' = IF built THEN Original ELSE RestoreOnError(Original)
       ELSE /\ ytCalls' = [ytCalls EXCEPT ![c].pc = "getTrackData"]
            /\ UNCHANGED windowFetch
    /\ UNCHANGED youtubeModule
    /\ UNCHANGED notYoutube

\* mod.getTrackData settles: the override is removed, and the info built
\* when there is data
getTrackDataSettle(c, s, built) ==
    /\ ytCalls[c].pc = "getTrackData"
    /\ ytCalls' = [ytCalls EXCEPT ![c].pc = "done",
                        ![c].path = IF s # "value" THEN "empty"
                                    ELSE IF built THEN "success" ELSE "error"]
    /\ windowFetch' = IF s = "value" /\ ~built
                      THEN RestoreOnError(Original) ELSE Original
    /\ UNCHANGED youtubeModule
    /\ UNCHANGED notYoutube

\* the caller has the result
youtubeReturn(c) ==
    /\ ytCalls[c].pc = "done"
    /\ ytCalls' = [ytCalls EXCEPT ![c] = IdleCall]
    /\ UNCHANGED <<windowFetch, youtubeModule>>
    /\ UNCHANGED notYoutube

YoutubeInit ==
    /\ windowFetch = Original
    /\ youtubeModule = FALSE
    /\ ytCalls = [c \in YtSlots |-> IdleCall]

YoutubeNext ==
    \/ \E c \in YtSlots, op \in YtOps : youtubeCall(c, op)
    \/ \E c \in YtSlots, ok \in BOOLEAN : importSettle(c, ok)
    \/ \E c \in YtSlots : moduleRequest(c)
    \/ \E c \in YtSlots, s \in Settles : youtubeMusicSearchSettle(c, s)
    \/ \E c \in YtSlots, s \in Settles, built \in BOOLEAN : getDataSettle(c, s, built)
    \/ \E c \in YtSlots, s \in Settles, built \in BOOLEAN : getTrackDataSettle(c, s, built)
    \/ \E c \in YtSlots : youtubeReturn(c)

(***************************************************************************)
(* Visualizer (src/components/AudioVisualizer.tsx): the effect starts      *)
(* draw, which asks for the next animation frame and then renders one      *)
(* frame.  Bar heights are in thousandths of the canvas height.            *)
(***************************************************************************)
\* the bars modelled, of the BAR_COUNT the canvas has
MaxBars == 2
\* DECAY_SPEED = 0.92, in hundredths
DECAY_SPEED == 92
\* MIN_BAR_PERCENT = 0.04, in thousandths
MIN_BAR_PERCENT == 40
\* the 0.005 above MIN_BAR_PERCENT a bar may stay and count as settled
SettleMargin == 5

Bars == 1..MaxBars
\* the heights a frame can leave a bar at while the track plays
Levels == {0, 60, 1000}

\* state.displayValues[i] *= DECAY_SPEED
Decay(v) == (v * DECAY_SPEED) \div 100

\* allSettled: no decayed bar is above MIN_BAR_PERCENT + 0.005
AllSettled(values) == \A i \in Bars : values[i] <= MIN_BAR_PERCENT + SettleMargin

\* draw(): requestAnimationFrame(draw) at entry, then the frame: new heights
\* while playing (values: what the analyser or the simulation gives), or the
\* decay, which ends with the static frame and a return once every bar has
\* settled (the frame asked for at entry stays requested)
draw(v, values) ==
    LET entered == [v EXCEPT !.frame = TRUE]
        decayed == [i \in Bars |-> Decay(v.displayValues[i])]
    IN  IF v.isPlaying
        THEN [entered EXCEPT !.displayValues = values]
        ELSE IF AllSettled(decayed)
        THEN [entered EXCEPT !.displayValues = [i \in Bars |-> 0],
                             !.settled = TRUE]
        ELSE [entered EXCEPT !.displayValues = decayed]

\* the effect runs, at mount and after a change of isPlaying, analyser or
\* isDark: the cleanup of the previous run cancels the frame requested, then
\* draw()
visualizerEffect(playing, withAnalyser, values) ==
    /\ visualizer' = draw([visualizer EXCEPT !.mounted = TRUE,
                                             !.isPlaying = playing,
                                             !.analyser = withAnalyser,
                                             !.frame = FALSE,
                                             !.settled = FALSE],
                          values)
    /\ UNCHANGED notVisualizer

\* the frame requested comes: draw()
animationFrame(values) ==
    /\ visualizer.frame
    /\ visualizer' = draw([visualizer EXCEPT !.frame = FALSE, !.settled = FALSE],
                          values)
    /\ UNCHANGED notVisualizer

\* settled (history): the last draw went through the settled branch
VisualizerInit ==
    visualizer = [mounted |-> FALSE, isPlaying |-> FALSE, analyser |-> FALSE,
                  displayValues |-> [i \in Bars |-> 0], frame |-> FALSE,
                  settled |-> FALSE]

VisualizerNext ==
    \/ \E playing, withAnalyser \in BOOLEAN, values \in [Bars -> Levels] :
          visualizerEffect(playing, withAnalyser, values)
    \/ \E values \in [Bars -> Levels] : animationFrame(values)

(***************************************************************************)
(* CORS proxy (src/functions/api/cors-proxy.ts): onRequest answers a       *)
(* request for /api/cors-proxy?url=... with what the target answers.       *)
(* Host names are sequences of labels.                                     *)
(***************************************************************************)
\* how many redirects the proxy's fetch follows here
MaxRedirects == 1

\* some of ALLOWED_HOSTS
ALLOWED_HOSTS ==
    {<<"pipedapi", "moomoo", "me">>, <<"youtube", "com">>, <<"kuwo", "cn">>}

\* the hosts of the Piped mirrors, two hosts under and outside the list, and
\* a parked domain
HostOf(instance) ==
    CASE instance = "moomoo" -> <<"pipedapi", "moomoo", "me">>
      [] instance = "api.moomoo" -> <<"api", "piped", "moomoo", "me">>
      [] instance = "hypercrab" -> <<"piped-api", "hypercrab", "xyz">>
      [] OTHER -> <<"remote", "example">>
Hosts ==
    {HostOf(inst) : inst \in AllInstances}
        \cup {<<"www", "youtube", "com">>, <<"notyoutube", "com">>, <<"m", "kuwo", "cn">>,
              <<"parked", "example">>}

\* the url parameter: missing, not a url, or a url with its host
NoHost == <<>>
Urls ==
    {[kind |-> "missing", host |-> NoHost], [kind |-> "malformed", host |-> NoHost]}
        \cup {[kind |-> "url", host |-> h] : h \in Hosts}
Methods == {"GET", "POST", "OPTIONS"}

\* hostname.endsWith('.' + host)
EndsWithDot(hostname, host) ==
    /\ Len(hostname) > Len(host)
    /\ SubSeq(hostname, Len(hostname) - Len(host) + 1, Len(hostname)) = host

\* ALLOWED_HOSTS.some(host => hostname === host || hostname.endsWith('.' + host))
IsAllowed(hostname) ==
    \E host \in ALLOWED_HOSTS : hostname = host \/ EndsWithDot(hostname, host)

\* fetchOpts.redirect
fetchOptsRedirect == "follow"

\* what a host answers the proxy's fetch with: a response, a 3xx response
\* with the Location it names, or nothing (transport failure)
UpstreamAnswers ==
    { [kind |-> "response", status |-> 200, ct |-> "application/json", location |-> NoHost],
      [kind |-> "response", status |-> 200, ct |-> "text/html", location |-> NoHost],
      [kind |-> "response", status |-> 404, ct |-> "application/json", location |-> NoHost],
      [kind |-> "response", status |-> 500, ct |-> "text/html", location |-> NoHost],
      [kind |-> "error", status |-> 0, ct |-> "", location |-> NoHost] }
        \cup {[kind |-> "response", status |-> 302, ct |-> "text/html", location |-> h] :
                 h \in {<<"parked", "example">>, <<"www", "youtube", "com">>}}

\* one invocation: the request (method, url, and for a request of pipedFetch
\* the slot and the loop index it comes from), the hosts its fetch has
\* requested, in order, and the response (status, content type, and the host
\* whose answer it passes on)
IdleProxy ==
    [pc |-> "idle", method |-> "", url |-> [kind |-> "missing", host |-> NoHost],
     from |-> 0, i |-> 0, hops |-> <<>>, status |-> 0, ct |-> "", payloadOf |-> NoHost]

\* jsonResponse(data, status, request)
jsonResponse(r, status) ==
    [r EXCEPT !.pc = "done", !.status = status, !.ct = "application/json"]

\* onRequest up to its fetch: the preflight, the url parameter, the allow-list
onRequest(method, url, from, i) ==
    /\ proxy.pc = "idle"
    /\ LET r == [IdleProxy EXCEPT !.method = method, !.url = url, !.from = from,
                                  !.i = i]
       IN  proxy' =
             IF method = "OPTIONS" THEN [r EXCEPT !.pc = "done", !.status = 204]
             ELSE IF url.kind = "missing" THEN jsonResponse(r, 400)
             ELSE IF url.kind = "malformed" THEN jsonResponse(r, 400)
             ELSE IF ~IsAllowed(url.host) THEN jsonResponse(r, 403)
             ELSE [r EXCEPT !.pc = "fetching", !.hops = <<url.host>>]
    /\ UNCHANGED notProxy

\* the host the fetch is at answers: a redirect is followed (up to the limit,
\* past which the fetch fails), a response is passed on with its status and
\* content type, a failure gives 502
upstreamAnswer(a) ==
    /\ proxy.pc = "fetching"
    /\ proxy' =
         IF a.kind = "error" THEN jsonResponse(proxy, 502)
         ELSE IF a.status >= 300 /\ a.status < 400 /\ fetchOptsRedirect = "follow"
         THEN IF Len(proxy.hops) <= MaxRedirects
              THEN [proxy EXCEPT !.hops = Append(@, a.location)]
              ELSE jsonResponse(proxy, 502)
         ELSE [proxy EXCEPT !.pc = "done", !.status = a.status, !.ct = a.ct,
                            !.payloadOf = proxy.hops[Len(proxy.hops)]]
    /\ UNCHANGED notProxy

\* the response is with the client; the invocation is over
proxyRespond ==
    /\ proxy.pc = "done"
    /\ proxy' = IdleProxy
    /\ UNCHANGED notProxy

ProxyInit == proxy = IdleProxy

ProxyNext ==
    \/ \E method \in Methods, url \in Urls : onRequest(method, url, 0, 0)
    \/ \E a \in UpstreamAnswers : upstreamAnswer(a)
    \/ proxyRespond

\* what the client's fetch gives for the proxy's response
ResponseOf(r) == [kind |-> "response", status |-> r.status, ct |-> r.ct]

\* the proxy holds the response to the request that the call in slot c is
\* waiting for
AnswersCall(c) ==
    /\ proxy.pc = "done"
    /\ proxy.from = c
    /\ pf[c].pc = "fetching"
    /\ proxy.i = pf[c].i

\* pipedFetch with its requests going through the proxy: a call's request
\* reaches onRequest, the mirror (or whatever it redirects to) answers, and
\* the call goes on with the proxy's response
MirrorNext ==
    \/ \E c \in FetchSlots : pipedFetchStart(c) /\ proxy.from # c
    \/ \E c \in FetchSlots :
          /\ pf[c].pc = "fetching"
          /\ onRequest("GET", [kind |-> "url", host |-> HostOf(CandidateAt(pf[c]))],
                       c, pf[c].i)
    \/ \E a \in UpstreamAnswers : upstreamAnswer(a)
    \/ \E c \in FetchSlots : AnswersCall(c) /\ pipedFetchSettle(c, ResponseOf(proxy))
    \/ proxyRespond /\ ~AnswersCall(proxy.from)
    \/ \E c \in FetchSlots : pipedFetchReturn(c)

(***************************************************************************)
(* getPlaylistDetail (src/unnamed/part_000): Piped, YouTube, then the      *)
(* method executor of the legacy backend                                   *)
(***************************************************************************)
\* an id by what the conditions read of it: how it starts, how long it is,
\* and whether all its characters are of [A-Za-z0-9_-]
PlaylistIds == [prefix : {"OLAK", "PL", "RD"}, length : {20, 21, 29, 30}, safe : BOOLEAN]
PlaylistPlatforms == {"piped", "youtube", "netease"}
\* what a backend gives: a playlist, or null
PlaylistAnswers == {"value", "nothing"}

PipedConditionAlways(id, platform) == TRUE
\* platform === 'piped' || id.startsWith('OLAK') || id.match(/^[A-Za-z0-9_-]{30,}$/)
PipedCondition(id, platform) ==
    \/ platform = "piped"
    \/ id.prefix = "OLAK"
    \/ id.safe /\ id.length >= 30

YoutubeConditionFrom20(id, platform) ==
    platform = "youtube" \/ id.prefix = "PL" \/ id.length >= 20
\* platform === 'youtube' || id.startsWith('PL') || id.length > 20
YoutubeCondition(id, platform) ==
    \/ platform = "youtube"
    \/ id.prefix = "PL"
    \/ id.length > 20

\* the backend that is asked when the Piped one was not, or gave nothing
AfterPiped(id, platform) ==
    IF YoutubeCondition(id, platform) THEN "youtube" ELSE "legacy"

\* the backend that is asked first
FirstBackend(id, platform) ==
    IF PipedCondition(id, platform) THEN "piped" ELSE AfterPiped(id, platform)

\* one call: its arguments, the backend it awaits (pc), the backends it has
\* asked, in order (history), and the backend its result is from ("null" for
\* the null it returns when the executor gave nothing)
IdleDetail ==
    [pc |-> "idle", id |-> [prefix |-> "RD", length |-> 20, safe |-> TRUE],
     platform |-> "", asked |-> <<>>, result |-> ""]

\* getPlaylistDetail is called and runs up to its first await
getPlaylistDetail(id, platform) ==
    /\ pd.pc = "idle"
    /\ pd' = [IdleDetail EXCEPT !.pc = FirstBackend(id, platform), !.id = id,
                                !.platform = platform,
                                !.asked = <<FirstBackend(id, platform)>>]
    /\ UNCHANGED ai
    /\ UNCHANGED notLookup

\* the backend awaited answers: its playlist is returned; when it gave
\* nothing the call goes on to the next backend, and after the executor it
\* returns null
playlistSettle(answer) ==
    /\ pd.pc \in {"piped", "youtube", "legacy"}
    /\ LET next == IF pd.pc = "piped" THEN AfterPiped(pd.id, pd.platform)
                   ELSE "legacy"
       IN  pd' = IF answer = "value"
                 THEN [pd EXCEPT !.pc = "done", !.result = pd.pc]
                 ELSE IF pd.pc = "legacy"
                 THEN [pd EXCEPT !.pc = "done", !.result = "null"]
                 ELSE [pd EXCEPT !.pc = next, !.asked = Append(@, next)]
    /\ UNCHANGED ai
    /\ UNCHANGED notLookup

\* the caller has the result
getPlaylistDetailReturn ==
    /\ pd.pc = "done"
    /\ pd' = IdleDetail
    /\ UNCHANGED ai
    /\ UNCHANGED notLookup

PlaylistInit == pd = IdleDetail

PlaylistNext ==
    \/ \E id \in PlaylistIds, platform \in PlaylistPlatforms : getPlaylistDetail(id, platform)
    \/ \E answer \in PlaylistAnswers : playlistSettle(answer)
    \/ getPlaylistDetailReturn

(***************************************************************************)
(* getAudioInfo (src/services/youtube.ts): the two metadata accessors and  *)
(* the choice of the format whose url is returned                          *)
(***************************************************************************)
\* the longest adaptiveFormats list
MaxFormats == 2

\* a format: its mimeType, its audioQuality ("" when it has none), and
\* whether it has a url and a signatureCipher.url
MimeTypes == {"audio/webm", "video/mp4"}
AudioQualities3 == {"", "AUDIO_QUALITY_LOW", "AUDIO_QUALITY_MEDIUM", "AUDIO_QUALITY_HIGH"}
Formats == [mimeType : MimeTypes, audioQuality : AudioQualities3, url : BOOLEAN,
            cipherUrl : BOOLEAN]
FormatLists == UNION {[1..n -> Formats] : n \in 0..MaxFormats}

\* what an accessor gives: adaptiveFormats (when the data has that field)
\* and formats
VideoWithUrl ==
    [mimeType |-> "video/mp4", audioQuality |-> "", url |-> TRUE, cipherUrl |-> FALSE]
TrackData ==
    {[hasAdaptive |-> TRUE, adaptiveFormats |-> l, formats |-> <<VideoWithUrl>>] :
        l \in FormatLists}
      \cup {[hasAdaptive |-> FALSE, adaptiveFormats |-> <<>>, formats |-> l] :
               l \in {<<>>, <<VideoWithUrl>>}}
NoData == [hasAdaptive |-> FALSE, adaptiveFormats |-> <<>>, formats |-> <<>>]

\* data.adaptiveFormats || data.formats || []
FormatsOf(data) == IF data.hasAdaptive THEN data.adaptiveFormats ELSE data.formats

\* formats with their place in the list, so that the url returned tells
\* which format it is of
Placed(formats) == [k \in 1..Len(formats) |-> [at |-> k, f |-> formats[k]]]

\* f.mimeType?.includes('audio') || f.audioQuality
IsAudioFormat(f) == f.mimeType = "audio/webm" \/ f.audioQuality # ""

\* qualityOrder.indexOf(f.audioQuality)
QualityIndex(f) ==
    CASE f.audioQuality = "AUDIO_QUALITY_LOW" -> 0
      [] f.audioQuality = "AUDIO_QUALITY_MEDIUM" -> 1
      [] f.audioQuality = "AUDIO_QUALITY_HIGH" -> 2
      [] OTHER -> -1

\* x put into the sorted list behind every entry the comparator does not put
\* behind it (bIndex - aIndex <= 0)
RECURSIVE InsertSorted(_, _)
InsertSorted(x, sorted) ==
    IF sorted = <<>> THEN <<x>>
    ELSE IF QualityIndex(x.f) > QualityIndex(sorted[1].f)
    THEN <<x>> \o sorted
    ELSE <<sorted[1]>> \o InsertSorted(x, Tail(sorted))

\* audioFormats.sort((a, b) => bIndex - aIndex): stable, best tier first
RECURSIVE SortByQuality(_)
SortByQuality(list) ==
    IF list = <<>> THEN <<>>
    ELSE InsertSorted(list[Len(list)], SortByQuality(SubSeq(list, 1, Len(list) - 1)))

\* no url: the null of audioUrl
NoAudioUrl == [at |-> 0, of |-> ""]

FallBackNever(audioUrl, placed) == audioUrl
\* if (!audioUrl && formats.length > 0): the url of the first format with one
FallBack(audioUrl, placed) ==
    IF audioUrl = NoAudioUrl /\ Len(placed) > 0
    THEN LET withUrl == SelectSeq(placed, LAMBDA p : p.f.url)
         IN  IF withUrl = <<>> THEN NoAudioUrl
             ELSE [at |-> withUrl[1].at, of |-> "url"]
    ELSE audioUrl

\* the audioUrl getAudioInfo extracts from the data
AudioUrlOf(data) ==
    LET placed == Placed(FormatsOf(data))
        audioFormats == SortByQuality(SelectSeq(placed, LAMBDA p : IsAudioFormat(p.f)))
        fromBest ==
            IF audioFormats = <<>> THEN NoAudioUrl
            ELSE LET bestAudio == audioFormats[1]
                 IN  IF bestAudio.f.url THEN [at |-> bestAudio.at, of |-> "url"]
                     ELSE IF bestAudio.f.cipherUrl
                     THEN [at |-> bestAudio.at, of |-> "signatureCipher"]
                     ELSE NoAudioUrl
    IN  FallBack(fromBest, placed)

\* one call: the accessors it has called, in order, with what each came to
\* (history), the data it goes on with, and its result (isNull, or the info
\* with its audioUrl)
IdleInfo ==
    [pc |-> "idle", called |-> <<>>, came |-> <<>>, data |-> NoData,
     isNull |-> FALSE, audioUrl |-> NoAudioUrl]

\* getAudioInfo is called, with the module loaded, and calls mod.getData
getAudioInfo ==
    /\ ai.pc = "idle"
    /\ ai' = [IdleInfo EXCEPT !.pc = "getData", !.called = <<"getData">>]
    /\ UNCHANGED pd
    /\ UNCHANGED notLookup

\* the accessor awaited settles: with data the info is built from it;
\* without (nothing, or a throw that the inner catch takes) getTrackData is
\* called after getData, and null is returned after getTrackData
accessorSettle(s, data) ==
    /\ ai.pc \in {"getData", "getTrackData"}
    /\ ai' =
         LET noted == [ai EXCEPT !.came = Append(@, s)]
         IN  IF s = "value"
             THEN [noted EXCEPT !.pc = "done", !.data = data,
                                !.audioUrl = AudioUrlOf(data)]
             ELSE IF ai.pc = "getData"
             THEN [noted EXCEPT !.pc = "getTrackData",
                                !.called = Append(@, "getTrackData")]
             ELSE [noted EXCEPT !.pc = "done", !.isNull = TRUE]
    /\ UNCHANGED pd
    /\ UNCHANGED notLookup

\* the caller has the result
getAudioInfoReturn ==
    /\ ai.pc = "done"
    /\ ai' = IdleInfo
    /\ UNCHANGED pd
    /\ UNCHANGED notLookup

AudioInfoInit == ai = IdleInfo

AudioInfoNext ==
    \/ getAudioInfo
    \/ \E s \in Settles, data \in TrackData :
          accessorSettle(s, IF s = "value" THEN data ELSE NoData)
    \/ getAudioInfoReturn

Init ==
    /\ PipedInit /\ AggInit /\ ResInit /\ PlayerInit /\ PipedOpsInit /\ YoutubeInit
    /\ VisualizerInit /\ ProxyInit /\ PlaylistInit /\ AudioInfoInit

PipedNext ==
    \/ \E c \in FetchSlots : pipedFetchStart(c)
    \/ \E c \in FetchSlots, r \in Outcomes : pipedFetchSettle(c, r)
    \/ \E c \in FetchSlots : pipedFetchReturn(c)
    \/ \E l \in RemoteLists : updateInstances(l)
    \/ \E d \in TickSteps : Tick(d)

PipedSpec == Init /\ [][PipedNext]_vars

\* every mirror hangs: no request is answered, and the abort that the 8 s
\* timer of a request raises rejects its fetch
HangNext ==
    \/ \E c \in FetchSlots : pipedFetchStart(c)
    \/ \E c \in FetchSlots : pipedFetchSettle(c, NetworkError)
    \/ \E c \in FetchSlots : pipedFetchReturn(c)
    \/ \E d \in TickSteps : Tick(d)

\* the timer of a request that is out does fire
HangSpec ==
    /\ Init
    /\ [][HangNext]_vars
    /\ \A c \in FetchSlots : WF_vars(pipedFetchSettle(c, NetworkError))

AggSpec == Init /\ [][AggNext]_vars

ResSpec == Init /\ [][ResNext]_vars

LyricsSpec == Init /\ [][LyricsNext]_vars

PlayerSpec == Init /\ [][PlayerNext]_vars

\* the engine left to itself after the user's plays: the only user action is
\* picking a song; resolutions, media events and renders follow
UnattendedNext ==
    \/ \E persisted \in Persisted, quality \in AudioQualities : Mount(persisted, quality) /\ UNCHANGED engineVars
    \/ \E song \in Songs : UserPlaySong(song) /\ UNCHANGED engineVars
    \/ \E i \in 1..MaxInFlight, found \in BOOLEAN : youtubeGetAudioUrlSettle(i, found) /\ UNCHANGED engineVars
    \/ \E i \in 1..MaxInFlight, found \in BOOLEAN : pipedGetAudioUrlSettle(i, found) /\ UNCHANGED engineVars
    \/ playRejected /\ UNCHANGED engineVars
    \/ loadedmetadata /\ UNCHANGED engineVars
    \/ \E rnd \in QueueIndexes : ended(rnd) /\ UNCHANGED engineVars
    \/ error /\ UNCHANGED engineVars
    \/ Commit /\ UNCHANGED engineVars

UnattendedSpec == Init /\ [][UnattendedNext]_vars

\* the element holds the stream of song and plays it
Playing(song) ==
    /\ audio.src # NoSrc
    /\ audio.src[2] = song.id
    /\ audio.status = "loaded"
    /\ ~audio.paused

\* the user plays A, then, while A plays, picks B, and does nothing more;
\* before picking B the user may change the play mode
HandoverNext ==
    \/ \E persisted \in Persisted, quality \in AudioQualities : Mount(persisted, quality) /\ UNCHANGED engineVars
    \/ audio.src = NoSrc /\ plays = <<>> /\ UserPlaySong(SongA) /\ UNCHANGED engineVars
    \/ ~InQueue(queue, SongB.id) /\ togglePlayMode /\ UNCHANGED engineVars
    \/ ~InQueue(queue, SongB.id) /\ Playing(SongA) /\ UserPlaySong(SongB) /\ UNCHANGED engineVars
    \/ \E i \in 1..MaxInFlight, found \in BOOLEAN : youtubeGetAudioUrlSettle(i, found) /\ UNCHANGED engineVars
    \/ \E i \in 1..MaxInFlight, found \in BOOLEAN : pipedGetAudioUrlSettle(i, found) /\ UNCHANGED engineVars
    \/ loadedmetadata /\ UNCHANGED engineVars
    \/ \E rnd \in QueueIndexes : Playing(SongA) /\ ended(rnd) /\ UNCHANGED engineVars
    \/ Commit /\ UNCHANGED engineVars

HandoverSpec == Init /\ [][HandoverNext]_vars

\* the engine with its queue and play-mode operations, every playback
\* succeeding: plays, queue edits, mode changes, track ends
QueueNext ==
    \/ \E persisted \in Persisted, quality \in AudioQualities : Mount(persisted, quality) /\ UNCHANGED engineVars
    \/ \E song \in Songs : UserPlaySong(song) /\ UNCHANGED engineVars
    \/ \E rnd \in QueueIndexes : UserPlayNext(rnd) /\ UNCHANGED engineVars
    \/ \E song \in Songs : addToQueue(song) /\ UNCHANGED engineVars
    \/ \E song \in Songs : removeFromQueue(song.id) /\ UNCHANGED engineVars
    \/ clearQueue /\ UNCHANGED engineVars
    \/ togglePlayMode /\ UNCHANGED engineVars
    \/ \E i \in 1..MaxInFlight, found \in BOOLEAN : youtubeGetAudioUrlSettle(i, found) /\ UNCHANGED engineVars
    \/ \E i \in 1..MaxInFlight, found \in BOOLEAN : pipedGetAudioUrlSettle(i, found) /\ UNCHANGED engineVars
    \/ loadedmetadata /\ UNCHANGED engineVars
    \/ \E rnd \in QueueIndexes : ended(rnd) /\ UNCHANGED engineVars
    \/ Commit /\ UNCHANGED engineVars

QueueSpec == Init /\ [][QueueNext]_vars

PersistSpec == Init /\ [][PersistNext]_vars

RoutingSpec == Init /\ [][RoutingNext]_vars

PipedOpsSpec == Init /\ [][PipedOpsNext]_vars

YoutubeSpec == Init /\ [][YoutubeNext]_vars

VisualizerSpec == Init /\ [][VisualizerNext]_vars

ProxySpec == Init /\ [][ProxyNext]_vars

MirrorSpec == Init /\ [][MirrorNext]_vars

PlaylistSpec == Init /\ [][PlaylistNext]_vars

AudioInfoSpec == Init /\ [][AudioInfoNext]_vars

(***************************************************************************)
(* Properties of the Piped client                                          *)
(***************************************************************************)
\* s rotated to begin with its element x
RotatedFrom(s, x) ==
    LET k == CHOOSE j \in 1..Len(s) : s[j] = x
    IN  SubSeq(s, k, Len(s)) \o SubSeq(s, 1, k - 1)

\* the order in which a call is to go through its healthy subset: from the
\* instance under the cursor when that one is healthy, else from the first
RotationOrder(f) ==
    IF f.cursorInstance \in Range(f.available)
    THEN RotatedFrom(f.available, f.cursorInstance)
    ELSE f.available

\* the step in which slot c starts a pipedFetch call
StartsFetch(c) ==
    /\ pf[c].pc = "idle"
    /\ pf'[c].pc # "idle"

\* C1: with a non-empty healthy subset, the requests of a call follow the
\* rotation order from the cursor's instance, the call returns the answer of
\* the first instance in that order that answered 2xx with a JSON content
\* type (it never went past such an answer), a returned response is never a
\* redirect, non-JSON or non-2xx, and null is returned only after the whole
\* rotation failed.
C1_FirstJsonOkWins ==
    \A c \in FetchSlots :
        LET f == pf[c]
            order == RotationOrder(f)
        IN  Len(f.available) > 0 =>
              /\ Len(f.tried) <= Len(order)
              /\ f.tried = SubSeq(order, 1, Len(f.tried))
              /\ ~f.skippedOk
              /\ f.result # Null =>
                    /\ f.result.instance = f.tried[Len(f.tried)]
                    /\ f.result.response.kind = "response"
                    /\ f.result.response.status \in 200..299
                    /\ f.result.response.ct \in JsonTypes
              /\ (f.pc = "done" /\ f.result = Null) => f.tried = order

\* C1 witness: a call that started in the middle of the healthy subset,
\* went past a failing instance and returned the next one's answer
C1_Witness ==
    \E c \in FetchSlots :
        /\ pf[c].result # Null
        /\ pf[c].startIndex > 0
        /\ Len(pf[c].tried) >= 2

\* C2 (as amended): an instance whose broken mark is T is left out of the
\* candidates of every call that starts at or before T + 5 minutes and is a
\* candidate of every call that starts later than T + 5 minutes.
C2_BrokenWindow ==
    [][\A c \in FetchSlots : StartsFetch(c) =>
         \A x \in Range(PIPED_INSTANCES) :
            LET T == BROKEN_INSTANCES[x]
            IN  T # Undefined =>
                  /\ clock <= T + BROKEN_TIMEOUT => x \notin Range(pf'[c].available)
                  /\ clock > T + BROKEN_TIMEOUT => x \in Range(pf'[c].available)]_vars

\* C2 witness: a call that started later than T + 5 minutes has the instance
\* marked at T among its candidates, and asked it
C2_Witness ==
    \E c \in FetchSlots, x \in AllInstances :
        /\ BROKEN_INSTANCES[x] # Undefined
        /\ pf[c].now > BROKEN_INSTANCES[x] + BROKEN_TIMEOUT
        /\ x \in Range(pf[c].tried)

\* C2 as stated: left out of the calls that start before T + 5 minutes,
\* a candidate again of the calls that start from T + 5 minutes on.
C2_Original ==
    [][\A c \in FetchSlots : StartsFetch(c) =>
         \A x \in Range(PIPED_INSTANCES) :
            LET T == BROKEN_INSTANCES[x]
            IN  T # Undefined =>
                  /\ clock < T + BROKEN_TIMEOUT => x \notin Range(pf'[c].available)
                  /\ clock >= T + BROKEN_TIMEOUT => x \in Range(pf'[c].available)]_vars

\* every instance of the pool carries a broken mark inside the timeout window
AllBroken ==
    \A x \in Range(PIPED_INSTANCES) :
        /\ BROKEN_INSTANCES[x] # Undefined
        /\ clock - BROKEN_INSTANCES[x] <= BROKEN_TIMEOUT

\* C3: a call that starts while every instance of the pool is marked broken
\* returns null at once and issues no request.
C3_AllBrokenNoRequest ==
    [][\A c \in FetchSlots : (StartsFetch(c) /\ AllBroken) =>
         /\ pf'[c].pc = "done"
         /\ pf'[c].result = Null
         /\ pf'[c].tried = <<>>]_vars

\* C3 witness: a finished call that found the whole pool marked broken
C3_Witness ==
    \E c \in FetchSlots :
        /\ pf[c].pc = "done"
        /\ pf[c].result = Null
        /\ pf[c].tried = <<>>
        /\ \A x \in Range(PIPED_INSTANCES) :
              /\ BROKEN_INSTANCES[x] # Undefined
              /\ pf[c].now - BROKEN_INSTANCES[x] <= BROKEN_TIMEOUT

(***************************************************************************)
(* Properties of the aggregator                                            *)
(***************************************************************************)
\* the lower-cased name|artist key of an entry
LowerCasedKey(song) ==
    toLowerCase(song.name) \o <<"|">> \o toLowerCase(song.artist)

\* what a search contributed: its list, nothing when it rejected
Contribution(raw) == IF raw.status = "fulfilled" THEN raw.value ELSE <<>>

\* the positions of list whose key occurs at no earlier position
FirstOccurrences(list) ==
    {k \in 1..Len(list) :
        \A j \in 1..(k - 1) : LowerCasedKey(list[j]) # LowerCasedKey(list[k])}

\* the m-th smallest element of a set of positions
NthOf(positions, m) ==
    CHOOSE k \in positions : Cardinality({j \in positions : j <= k}) = m

\* out holds the first entry of each key of list, in the order of list,
\* and stops after MaxResults entries
IsDedupCapOf(out, list) ==
    LET first == FirstOccurrences(list)
    IN  /\ Len(out) = IF Cardinality(first) < MaxResults
                      THEN Cardinality(first) ELSE MaxResults
        /\ \A m \in 1..Len(out) : out[m] = list[NthOf(first, m)]

IsPlaceholder(id) == id # <<>> /\ Head(id) = "temp_"

\* the step is a call of resolver op
CallsResolver(op) == rs.pc = "idle" /\ rs'.pc # "idle" /\ rs'.op = op

\* C6: parseSongs and parseSongFull, called with an id that starts with
\* temp_, return null in the step of the call: no request is awaited, the
\* parse cache is not looked up and is left as it was, whatever the platform
\* and the quality.
C6_PlaceholderReturnsNull ==
    [][\A op \in {"parseSongs", "parseSongFull"} :
          (CallsResolver(op) /\ IsPlaceholder(rs'.id)) =>
             /\ rs'.pc = "done"
             /\ rs'.result = Null
             /\ rs'.client = ""
             /\ ~rs'.readCache
             /\ parseCache' = parseCache]_vars

\* C6 witness: parseSongFull has returned null for a placeholder id on the
\* cached path, while the cache holds an entry
C6_Witness ==
    /\ rs.pc = "done"
    /\ rs.op = "parseSongFull"
    /\ IsPlaceholder(rs.id)
    /\ rs.platform = "netease"
    /\ rs.result = Null
    /\ parseCache # {}

\* C7: getSongUrl and getSongInfo never await the YouTube client or the Piped
\* client with an id that starts with temp_.
C7_NoClientCallWithPlaceholder ==
    ~(/\ rs.pc = "awaiting"
      /\ rs.op \in {"getSongUrl", "getSongInfo"}
      /\ rs.client \in {"youtube", "piped"}
      /\ IsPlaceholder(rs.id))

\* C33: for the sources youtube and piped, getLyrics and parseSongFull make
\* no request to the parse backend, getLyrics returns the empty string, and
\* the value parseSongFull returns has lrc = ''.
C33_NoLyricsForYoutubeAndPiped ==
    (rs.op \in {"getLyrics", "parseSongFull"} /\ rs.platform \in {"youtube", "piped"}) =>
        /\ rs.client # "tunehub"
        /\ (rs.pc = "done" /\ rs.op = "getLyrics") => rs.result = [lrc |-> ""]
        /\ (rs.pc = "done" /\ rs.op = "parseSongFull" /\ rs.result # Null) =>
              rs.result.lrc = ""

(***************************************************************************)
(* Properties of the playback engine                                       *)
(***************************************************************************)
\* song is the one the engine holds as current
IsCurrent(song) == currentSongRef # Null /\ currentSongRef.id = song.id

\* C8: playSong called with the song that is current, with no forced
\* quality, while the audio element has a source, only toggles play/pause:
\* no playSong resolution is requested, and currentSong, the queue and the
\* element's source stay as they were.
C8_SameSongOnlyToggles ==
    [][\A song \in Songs :
          (UserPlaySong(song) /\ IsCurrent(song) /\ audio.src # NoSrc) =>
             /\ plays' = plays
             /\ currentSong' = currentSong
             /\ queue' = queue
             /\ audio'.src = audio.src
             /\ isLoading' = isLoading
             /\ isPlaying' = ~renderedIsPlaying]_vars

\* C8 witness: the current song is loaded and was paused again, with no
\* resolution in flight
C8_Witness ==
    /\ currentSong # Null
    /\ currentSongRef = currentSong
    /\ audio.src = StreamUrl("youtube", currentSong)
    /\ audio.status = "loaded"
    /\ audio.paused
    /\ ~isPlaying
    /\ plays = <<>>

\* C9: a playback failure while the configured quality is not 128k and no
\* automatic retry was made for this play adds exactly one playSong
\* invocation, for the current song with quality 128k forced.
C9_OneRetryAt128k ==
    [][(error /\ audioQuality # "128k" /\ autoRetries = 0) =>
          /\ Len(plays') = Len(plays) + 1
          /\ SubSeq(plays', 1, Len(plays)) = plays
          /\ plays'[Len(plays')].song = currentSongRef
          /\ plays'[Len(plays')].forceQuality = "128k"
          /\ autoRetries' = 1]_vars

\* C9 witness: the element failed at quality 320k and the one retry of the
\* current song at 128k is in flight
C9_Witness ==
    /\ audioQuality = "320k"
    /\ audio.status = "failed"
    /\ autoRetries = 1
    /\ Len(plays) = 1
    /\ plays[1].song = currentSong
    /\ plays[1].forceQuality = "128k"

\* C10: a playback failure that follows the automatic retry, or one while
\* the configured quality is 128k, is terminal: no playSong invocation is
\* added, and isPlaying and isLoading are false after it.
C10_SecondFailureTerminal ==
    [][(error /\ (autoRetries >= 1 \/ audioQuality = "128k")) =>
          /\ plays' = plays
          /\ ~isPlaying'
          /\ ~isLoading']_vars

\* C11: with no user action but the plays themselves, at most one automatic
\* playSong re-invocation is made for one play (autoRetries counts them
\* since the play was requested), also when metadata-loaded events arrive
\* between the errors.
C11_AtMostOneAutoRetry == autoRetries <= 1

\* the i-th playSong in flight was followed by a call for another song that
\* is in flight too
Superseded(i) ==
    \E j \in (i + 1)..Len(plays) : plays[j].song.id # plays[i].song.id

\* the step is the end of the resolution of the i-th playSong in flight
Resolves(i) ==
    /\ i \in 1..Len(plays)
    /\ \E found \in BOOLEAN :
          \/ (found /\ youtubeGetAudioUrlSettle(i, found))
          \/ pipedGetAudioUrlSettle(i, found)

\* C12: of two overlapping playSong calls for different songs, the
\* resolution of the earlier one is dropped: it leaves the audio element
\* (source and play status) and isPlaying as they were.
C12_EarlierResolutionDropped ==
    [][\A i \in 1..MaxInFlight :
          (Resolves(i) /\ Superseded(i)) =>
             /\ audio' = audio
             /\ isPlaying' = isPlaying]_vars

\* the i-th playSong in flight was followed by a newer call, for any song,
\* that is in flight too
NewerInFlight(i) == i < Len(plays)

\* C37: once a newer playSong has been issued, the resolution of an older
\* one is not applied, also when both are for the same song id: the step
\* that ends the older resolution leaves the audio element as it was, so a
\* source is loaded only by the newest request.
C37_OlderResolutionNeverApplied ==
    [][\A i \in 1..MaxInFlight :
          (Resolves(i) /\ NewerInFlight(i)) => audio' = audio]_vars

\* C36: after the user's playSong(B), made while A played and followed by
\* no user action, a resolution for B that comes with a url ends with B
\* loaded into the element, playing and current, also when A's track ended
\* in between.
C36_TrackEndDoesNotDropRequest ==
    [][\A i \in 1..MaxInFlight :
          (/\ i <= Len(plays)
           /\ plays[i].song = SongB
           /\ pipedGetAudioUrlSettle(i, TRUE)) =>
              /\ audio'.src = StreamUrl("piped", SongB)
              /\ ~audio'.paused
              /\ isPlaying'
              /\ currentSong' = SongB]_vars

\* the track whose source the audio element holds is another song's than
\* the one the i-th playSong in flight asked for
HoldsOtherTrack(i) ==
    /\ audio.src # NoSrc
    /\ audio.src[2] # plays[i].song.id

\* C13: when the only playSong in flight, for a new song, ends without a
\* url from either source, the track before it is untouched: isPlaying and
\* the audio element are as they were, and currentSong is still the song
\* whose source the element holds.
C13_FailedResolutionLeavesPrevious ==
    [][(/\ Len(plays) = 1
        /\ pipedGetAudioUrlSettle(1, FALSE)
        /\ HoldsOtherTrack(1)) =>
           /\ isPlaying' = isPlaying
           /\ audio' = audio
           /\ currentSong' # Null
           /\ currentSong'.id = audio.src[2]]_vars

\* the element produces audio: it holds a source that is loaded and it is
\* not paused
ProducesAudio ==
    /\ audio.src # NoSrc
    /\ audio.status = "loaded"
    /\ ~audio.paused

\* C38: whenever no resolution is in flight, isPlaying agrees with the
\* element: with isPlaying false the element produces no audio (also after
\* a failed resolution for a new song), and a track that ended while the
\* queue is empty does not leave isPlaying true.
C38_IsPlayingAgreesWithElement ==
    plays = <<>> =>
        /\ ~isPlaying => ~ProducesAudio
        /\ (audio.status = "ended" /\ queue = <<>>) => ~isPlaying

\* the render is up to date: the mirrors hold the current song and the queue
Rendered == currentSongRef = currentSong /\ queueRef = queue

\* the step adds one playSong invocation, for song, with no quality forced
StartsPlayOf(song) ==
    /\ Len(plays') = Len(plays) + 1
    /\ SubSeq(plays', 1, Len(plays)) = plays
    /\ plays'[Len(plays')].song = song
    /\ plays'[Len(plays')].forceQuality = NoForce

\* C14: when a track ends in sequence mode and the queue holds the current
\* song at index i, a playSong of queue[(i + 1) mod n] starts its
\* resolution, for every queue length n >= 1.
C14_SequenceAdvance ==
    [][\A rnd \in QueueIndexes :
          (/\ ended(rnd)
           /\ playMode = "sequence"
           /\ Rendered
           /\ FindIndex(queue, currentSong) >= 0) =>
              StartsPlayOf(queue[((FindIndex(queue, currentSong) + 1) % Len(queue)) + 1])]_vars

\* C15: in shuffle mode with more than one queue entry, a track end or a
\* playNext starts the playSong of a song other than the current one (the
\* current entry is never the one selected).
C15_ShuffleSkipsCurrent ==
    [][\A rnd \in QueueIndexes :
          (/\ ended(rnd) \/ UserPlayNext(rnd)
           /\ playMode = "shuffle"
           /\ Len(queueRef) > 1
           /\ currentSongRef # Null) =>
              /\ Len(plays') = Len(plays) + 1
              /\ plays'[Len(plays')].song.id # currentSongRef.id
              /\ plays'[Len(plays')].song \in Range(queueRef)]_vars

\* C15 witness: a track ended in shuffle mode with two queue entries and
\* the other entry is being resolved
C15_Witness ==
    /\ playMode = "shuffle"
    /\ Len(queueRef) = 2
    /\ audio.status = "ended"
    /\ Len(plays) = 1
    /\ plays[1].song.id # audio.src[2]
    /\ currentSong = plays[1].song

\* C16: in loop mode a track end restarts the same track in place: the
\* element plays its source again, no playSong resolution is requested, and
\* currentSong and the queue are unchanged.
C16_LoopRestartsInPlace ==
    [][\A rnd \in QueueIndexes :
          (ended(rnd) /\ playMode = "loop") =>
             /\ plays' = plays
             /\ currentSong' = currentSong
             /\ queue' = queue
             /\ audio'.src = audio.src
             /\ audio'.status = "loaded"
             /\ ~audio'.paused]_vars

(***************************************************************************)
(* Properties of the Piped client operations                               *)
(***************************************************************************)
\* a body the operation cannot use: not JSON, not an object, or with the
\* field it reads holding something that is no array
Unusable(body) == body \in {"unparsable", "null", "wrongType"}

IsQueued(q, id) == \E k \in 1..Len(q) : q[k].id = id

NoTwoWithSameId(q) ==
    \A j, k \in 1..Len(q) : q[j].id = q[k].id => j = k

\* q after an operation that appends the song unless its id is queued
Enqueued(q, song) == IF IsQueued(q, song.id) THEN q ELSE Append(q, song)

\* playSong(song) comes to a play/pause toggle: the song is the current one
\* and the element has a source
OnlyToggles(song) ==
    /\ currentSongRef # Null
    /\ currentSongRef.id = song.id
    /\ audio.src # NoSrc

\* C20 (as stated): the queue never holds two entries with the same id, and
\* every playSong and every addToQueue leaves the queue unchanged when the
\* song's id is queued and appends the song at the end when it is not.
C20_Original ==
    [][/\ NoTwoWithSameId(queue')
       /\ \A song \in Songs :
             (UserPlaySong(song) \/ addToQueue(song)) =>
                 queue' = Enqueued(queue, song)]_vars

\* C20: the queue never holds two entries with the same id; addToQueue, and
\* playSong unless it comes to a toggle of the current song, leave the queue
\* unchanged when the song's id is queued and append the song at the end when
\* it is not; a playSong that comes to a toggle leaves the queue as it is,
\* whether or not the song's id is queued.
C20_QueueHasNoDuplicates ==
    [][/\ NoTwoWithSameId(queue')
       /\ \A song \in Songs :
             /\ addToQueue(song) => queue' = Enqueued(queue, song)
             /\ UserPlaySong(song) =>
                    queue' = IF OnlyToggles(song) THEN queue
                             ELSE Enqueued(queue, song)]_vars

\* C20 witness: song A is loaded and current, it has been removed from the
\* queue, which holds B, and a playSong(A) has paused it without queueing it
C20_Witness ==
    /\ currentSongRef = SongA
    /\ audio.src # NoSrc
    /\ audio.status = "loaded"
    /\ audio.paused
    /\ ~isPlaying
    /\ queue = <<SongB>>

\* C21: neither the current-song record nor any queue entry that the
\* persistence effects have written to localStorage carries a url.
C21_NoUrlPersisted == ~urls.stored.song /\ ~urls.stored.queue

\* C23: on a platform detected as iOS there is no audio context, no element
\* is connected to one, and the exposed analyser is null.
C23_NoGraphOnIOS ==
    graph.isIOS => ~graph.ctx /\ ~graph.connected /\ ~graph.analyser /\ ~graph.routed

\* C32: the element that playSong loads a resolved url into has crossOrigin
\* set, whatever calls of initAudioContext, rebuilds and plays went before.
C32_LoadsIntoCorsElement == graph.loaded # "plain"

\* C23 witness: on iOS a playSong has loaded its url into a rebuilt element
C23_Witness ==
    /\ graph.isIOS
    /\ audio.src # NoSrc
    /\ ~graph.ctx
    /\ ~graph.analyser

(***************************************************************************)
(* Properties of isAvailable and of the rounds of pipedFetch               *)
(***************************************************************************)
\* some instance of the pool is unmarked or was marked more than
\* BROKEN_TIMEOUT ago
SomeInstanceHealthy ==
    \E inst \in Range(PIPED_INSTANCES) :
        \/ BROKEN_INSTANCES[inst] = Undefined
        \/ clock - BROKEN_INSTANCES[inst] > BROKEN_TIMEOUT

\* C22: isAvailable() is true exactly when some instance is unmarked or past
\* its timeout, and a pipedFetch that starts at the same instant returns null
\* without a request exactly when isAvailable() is false.
C22_AvailableIffFetchTries ==
    [][/\ isAvailable(PIPED_INSTANCES, BROKEN_INSTANCES, clock) = SomeInstanceHealthy
       /\ \A c \in FetchSlots :
             pipedFetchStart(c) =>
                 /\ isAvailable(PIPED_INSTANCES, BROKEN_INSTANCES, clock)
                        = (pf'[c].pc = "fetching" /\ pf'[c].tried # <<>>)
                 /\ ~isAvailable(PIPED_INSTANCES, BROKEN_INSTANCES, clock)
                        = (pf'[c].pc = "done" /\ pf'[c].tried = <<>>
                            /\ pf'[c].result = Null)]_vars

\* C22 witness: isAvailable() is false, and a pipedFetch started at this
\* instant has returned null without a request
C22_Witness ==
    /\ ~isAvailable(PIPED_INSTANCES, BROKEN_INSTANCES, clock)
    /\ \E c \in FetchSlots :
          /\ pf[c].pc = "done"
          /\ pf[c].tried = <<>>
          /\ pf[c].result = Null
          /\ pf[c].now = clock

\* the step in which a request of slot c fails and the instance is marked
FailsOn(c) ==
    /\ pf[c].pc = "fetching"
    /\ BROKEN_INSTANCES'[CandidateAt(pf[c])] # BROKEN_INSTANCES[CandidateAt(pf[c])]
           \/ pf'[c].i > pf[c].i

\* C27: the broken mark recorded for an instance that fails inside pipedFetch
\* is the time at which the failure was observed.
C27_MarkedAtFailureTime ==
    [][\A c \in FetchSlots :
          (FailsOn(c) /\ \E r \in Outcomes : pipedFetchSettle(c, r)) =>
              BROKEN_INSTANCES'[CandidateAt(pf[c])] = clock]_vars

\* the step in which the last candidate of the round of slot c fails
RoundFails(c) ==
    /\ pf[c].pc = "fetching"
    /\ pf'[c].pc = "done"
    /\ pf'[c].result = Null

\* C28: after a round in which every candidate failed the cursor is the
\* position of the round's starting instance in the pool, plus one, modulo
\* the length of the pool (the pool being the one the round started with).
C28_CursorAfterFailedRound ==
    [][\A c \in FetchSlots :
          (RoundFails(c) /\ ~remoteLoaded) =>
              currentInstanceIndex' =
                  (IndexOf(PIPED_INSTANCES, pf[c].tried[1]) + 1) % Len(PIPED_INSTANCES)]_vars

\* the step in which slot c gets a response that pipedFetch returns
Succeeds(c) ==
    /\ pf[c].pc = "fetching"
    /\ pf'[c].pc = "done"
    /\ pf'[c].result # Null

\* C29: when a call succeeds on the instance at index k of the pool, the
\* cursor becomes (k + 1) mod the length of the pool; a call that starts
\* begins at the instance under the cursor, or at the first healthy instance
\* when that one is not healthy.
C29_CursorAfterSuccess ==
    [][\A c \in FetchSlots :
          /\ Succeeds(c) =>
                \E j \in 1..Len(PIPED_INSTANCES) :
                    /\ PIPED_INSTANCES[j] = pf'[c].result.instance
                    /\ currentInstanceIndex' = j % Len(PIPED_INSTANCES)
          /\ (StartsFetch(c) /\ pf'[c].tried # <<>>) =>
                LET first == pf'[c].tried[1]
                    under == PIPED_INSTANCES[(currentInstanceIndex % Len(PIPED_INSTANCES)) + 1]
                IN  IF under \in Range(pf'[c].available)
                    THEN first = under
                    ELSE first = pf'[c].available[1]]_vars

\* C29 witness: a call that succeeded on the last instance of the pool after
\* an earlier candidate failed, and the cursor is back at the first
C29_Witness ==
    \E c \in FetchSlots :
        /\ pf[c].pc = "done"
        /\ pf[c].result # Null
        /\ pf[c].result.instance = PIPED_INSTANCES[Len(PIPED_INSTANCES)]
        /\ Len(pf[c].tried) >= 2
        /\ currentInstanceIndex = 0

\* s has no element twice
NoRepeats(s) == \A j, k \in 1..Len(s) : s[j] = s[k] => j = k

\* C30: within one call every instance that was healthy at its start is
\* requested at most once; the requests go one at a time (the k-th is out
\* when the k - 1 before it have concluded, and none is out when the call is
\* over) in the cyclic order of the healthy subset from the start position;
\* and no request follows the first 2xx JSON answer: that answer ends the
\* call, on the instance requested last.
C30_EachOnceInCyclicOrder ==
    \A c \in FetchSlots :
        LET f == pf[c]
            len == Len(f.available)
        IN  /\ NoRepeats(f.tried)
            /\ Range(f.tried) \subseteq Range(f.available)
            /\ \A j \in 1..Len(f.tried) :
                  f.tried[j] = f.available[((f.startIndex + j - 1) % len) + 1]
            /\ f.pc = "fetching" => Len(f.tried) = f.i + 1
            /\ (f.pc = "done" /\ f.result = Null) => Len(f.tried) = f.i
            /\ ~f.skippedOk
            /\ f.result # Null =>
                  /\ f.pc = "done"
                  /\ Len(f.tried) = f.i + 1
                  /\ f.result.instance = f.tried[Len(f.tried)]

\* C30 witness: a call that started in the middle of a healthy subset of
\* three, went round it through the end of the list to its beginning and
\* got its answer from the last instance left
C30_Witness ==
    \E c \in FetchSlots :
        /\ pf[c].result # Null
        /\ pf[c].startIndex > 0
        /\ Len(pf[c].available) >= 3
        /\ Len(pf[c].tried) = Len(pf[c].available)

\* the call of slot c has returned null after a request to every instance of
\* its healthy subset, and each of them carries a broken mark
GaveUp(c) ==
    /\ pf[c].pc = "done"
    /\ pf[c].result = Null
    /\ pf[c].i = Len(pf[c].available)
    /\ Len(pf[c].tried) = Len(pf[c].available)
    /\ \A x \in Range(pf[c].available) : BROKEN_INSTANCES[x] # Undefined

\* C31: when every mirror hangs, a call that has a request out ends: it
\* returns null after one timeout for each instance of its healthy subset
\* (never more timeouts than the subset has instances), with each of them
\* marked broken.
C31_HangingMirrorsTerminate ==
    \A c \in FetchSlots :
        /\ [](pf[c].i <= Len(pf[c].available))
        /\ (pf[c].pc = "fetching") ~> GaveUp(c)

\* C31 witness: a call over a healthy subset of three that returned null
\* after three timeouts, while time went by
C31_Witness ==
    \E c \in FetchSlots :
        /\ GaveUp(c)
        /\ pf[c].i = 3
        /\ clock > pf[c].now

\* C39: the broken mark of an instance never moves backwards.
C39_MarkNeverMovesBack ==
    [][\A x \in AllInstances :
          BROKEN_INSTANCES[x] # Undefined =>
              BROKEN_INSTANCES'[x] >= BROKEN_INSTANCES[x]]_vars

\* the cursor is an index of the pool
CursorInPool ==
    /\ currentInstanceIndex >= 0
    /\ currentInstanceIndex < Len(PIPED_INSTANCES)

\* C40: the cursor is always an index of the current pool, and no step (a
\* replacement of the pool by a remote list included) takes an instance out
\* of the pool.
C40_CursorValid ==
    /\ []CursorInPool
    /\ [][Range(PIPED_INSTANCES) \subseteq Range(PIPED_INSTANCES')]_vars

\* C40 witness: the pool has been extended by the remote list, and a call
\* that succeeded on the last instance of the longer pool has put the cursor
\* back at 0
C40_Witness ==
    /\ remoteLoaded
    /\ Len(PIPED_INSTANCES) > Len(BuiltinInstances)
    /\ currentInstanceIndex = 0
    /\ \E c \in FetchSlots :
          /\ pf[c].result # Null
          /\ pf[c].result.instance = PIPED_INSTANCES[Len(PIPED_INSTANCES)]

(***************************************************************************)
(* Properties of the YouTube client                                        *)
(***************************************************************************)
\* C18: whenever no YouTube client call is in flight, window.fetch is the
\* original fetch, whichever path the calls ended on (success, no result,
\* error).
C18_FetchRestored ==
    (\A c \in YtSlots : ytCalls[c].pc \in {"idle", "done"}) => windowFetch = Original

\* C18 witness: two calls have finished, one on the error path and one on
\* the success path
C18_Witness ==
    /\ ytCalls[1].pc = "done"
    /\ ytCalls[2].pc = "done"
    /\ ytCalls[1].path = "error"
    /\ ytCalls[2].path = "success"
    /\ windowFetch = Original

\* C19: no request made by the extraction module for a call that has not
\* finished goes out while window.fetch is the original fetch.
C19_RequestsThroughOverride ==
    \A c \in YtSlots : ~ytCalls[c].direct

(***************************************************************************)
(* Properties of the visualizer                                            *)
(***************************************************************************)
\* C24: when draw has found every bar settled at the floor while isPlaying
\* is false, no animation frame is left requested.
C24_NoFrameAfterSettling ==
    (~visualizer.isPlaying /\ visualizer.settled) => ~visualizer.frame

(***************************************************************************)
(* Properties of the CORS proxy                                            *)
(***************************************************************************)
\* the host is on the allow-list, as it stands there or as a subdomain
IsAllowListed(hostname) ==
    \E host \in ALLOWED_HOSTS :
        \E k \in 1..Len(hostname) : SubSeq(hostname, k, Len(hostname)) = host

\* C25: for a request of pipedFetch the proxy requests no host but the
\* mirror's: a redirect the mirror answers with is not followed, and the
\* response passed on is the mirror's.
C25_RedirectNeverFollowed ==
    proxy.from # 0 =>
        /\ Len(proxy.hops) <= 1
        /\ proxy.pc = "done" /\ proxy.payloadOf # NoHost =>
              proxy.payloadOf = proxy.url.host

\* C26: a request other than a preflight gets 400 for a missing or malformed
\* url and 403, with no upstream request, for a host that is not allow-listed;
\* a transport failure gets 502 (a response from the proxy itself is 400,
\* 403 or 502); and every host the proxy requests, redirect hops included,
\* is allow-listed.
C26_OnlyAllowListedHosts ==
    proxy.method \in {"GET", "POST"} =>
        /\ \A k \in 1..Len(proxy.hops) : IsAllowListed(proxy.hops[k])
        /\ proxy.pc = "done" =>
              /\ proxy.url.kind \in {"missing", "malformed"} =>
                    proxy.status = 400 /\ proxy.hops = <<>>
              /\ proxy.url.kind = "url" /\ ~IsAllowListed(proxy.url.host) =>
                    proxy.status = 403 /\ proxy.hops = <<>>
              /\ proxy.hops # <<>> /\ proxy.payloadOf = NoHost => proxy.status = 502

(***************************************************************************)
(* Properties of getPlaylistDetail                                         *)
(***************************************************************************)
\* the platform is piped, or the id starts with the known prefix or is made
\* of at least 30 url-safe characters
LooksPiped(id, platform) ==
    platform = "piped" \/ id.prefix = "OLAK" \/ (id.safe /\ id.length > 29)

\* the platform is youtube, or the id starts with PL or is longer than 20
LooksYoutube(id, platform) ==
    platform = "youtube" \/ id.prefix = "PL" \/ id.length > 20

\* the backends are asked in the order Piped, YouTube, legacy executor, each
\* at most once
InPrecedenceOrder(asked) ==
    \E keep \in SUBSET {"piped", "youtube", "legacy"} :
        asked = SelectSeq(<<"piped", "youtube", "legacy">>, LAMBDA b : b \in keep)

\* C34 as stated: Piped is asked when its condition holds, otherwise YouTube
\* when its condition holds, otherwise the legacy executor, which is called
\* only when neither condition holds.
C34_Original ==
    pd.pc # "idle" =>
        /\ pd.asked[1] = (IF LooksPiped(pd.id, pd.platform) THEN "piped"
                          ELSE IF LooksYoutube(pd.id, pd.platform) THEN "youtube"
                          ELSE "legacy")
        /\ \A k \in 1..Len(pd.asked) :
              pd.asked[k] = "legacy" =>
                  ~LooksPiped(pd.id, pd.platform) /\ ~LooksYoutube(pd.id, pd.platform)

\* C34 (as amended): the backends are tried in the order Piped, YouTube,
\* legacy executor; Piped and YouTube are asked exactly when their condition
\* holds and no earlier backend has given a playlist; the result is the
\* playlist of the first backend that gave one; and the legacy executor is
\* called only when every backend whose condition holds has given nothing.
C34_PrecedenceWithFallThrough ==
    pd.pc # "idle" =>
        LET n == Len(pd.asked)
        IN  /\ InPrecedenceOrder(pd.asked)
            /\ pd.pc # "done" => pd.pc = pd.asked[n]
            /\ (pd.pc = "done" /\ pd.result # "null") => pd.result = pd.asked[n]
            /\ pd.pc = "done" /\ pd.result = "null" => pd.asked[n] = "legacy"
            /\ "piped" \in Range(pd.asked) <=> LooksPiped(pd.id, pd.platform)
            /\ "youtube" \in Range(pd.asked) => LooksYoutube(pd.id, pd.platform)
            /\ (LooksYoutube(pd.id, pd.platform) /\ "youtube" \notin Range(pd.asked)) =>
                  \/ pd.pc = "piped"
                  \/ pd.pc = "done" /\ pd.result = "piped"
            /\ "legacy" \in Range(pd.asked) =>
                  /\ LooksPiped(pd.id, pd.platform) => "piped" \in Range(pd.asked)
                  /\ LooksYoutube(pd.id, pd.platform) => "youtube" \in Range(pd.asked)
                  /\ pd.asked[n] = "legacy"

\* C34 witness: an id that both conditions accept, for a legacy platform;
\* Piped and YouTube gave nothing and the playlist is the executor's
C34_Witness ==
    /\ pd.pc = "done"
    /\ pd.platform = "netease"
    /\ pd.asked = <<"piped", "youtube", "legacy">>
    /\ pd.result = "legacy"

(***************************************************************************)
(* Properties of getAudioInfo                                              *)
(***************************************************************************)
\* the format is tagged as audio, by its mime type or by a quality tag
AudioTagged(f) == f.mimeType = "audio/webm" \/ f.audioQuality # ""

\* low < medium < high, and a format without one of these tags below them
Tier(f) ==
    CASE f.audioQuality = "AUDIO_QUALITY_HIGH" -> 3
      [] f.audioQuality = "AUDIO_QUALITY_MEDIUM" -> 2
      [] f.audioQuality = "AUDIO_QUALITY_LOW" -> 1
      [] OTHER -> 0

\* C35: the url returned is of an audio-tagged format of the highest tier
\* present whenever an audio-tagged format exists (the first format with
\* any url is used only when none exists); getTrackData is called only when
\* getData threw or gave nothing; and the result is null when both gave
\* nothing.
C35_BestAudioFormat ==
    /\ Len(ai.called) = 2 => ai.came # <<>> /\ ai.came[1] # "value"
    /\ (ai.pc = "done" /\ ai.came = <<"nothing", "nothing">>) => ai.isNull
    /\ (ai.pc = "done" /\ ~ai.isNull /\ ai.audioUrl # NoAudioUrl) =>
          LET formats == IF ai.data.hasAdaptive THEN ai.data.adaptiveFormats
                         ELSE ai.data.formats
              chosen == formats[ai.audioUrl.at]
          IN  IF \E k \in 1..Len(formats) : AudioTagged(formats[k])
              THEN /\ AudioTagged(chosen)
                   /\ \A k \in 1..Len(formats) :
                         AudioTagged(formats[k]) => Tier(formats[k]) <= Tier(chosen)
              ELSE /\ chosen.url
                   /\ \A k \in 1..(ai.audioUrl.at - 1) : ~formats[k].url

====
